---- MODULE Spec2Model ----
(***************************************************************************)
(* Slack webhook receiver of ai-sdk-slackbot: the in-memory dedup cache,   *)
(* the signature verifier, the thread-history dedup check and the event    *)
(* routers of the Lambda deployment (src/lambda.ts) and of the Vercel      *)
(* deployment (src/unnamed/part_000).                                      *)
(*                                                                         *)
(* Event identifiers are naturals: 0 stands for a falsy event_id (absent   *)
(* or ''), CatalogueIds are the identifiers of the catalogued events and   *)
(* larger numbers are identifiers never seen before.  Timestamps are       *)
(* integers (Slack's "seconds.micros" strings read by parseFloat/parseInt);*)
(* Date.now() is in milliseconds.                                          *)
(***************************************************************************)
EXTENDS Integers, Sequences, FiniteSets, TLC

(* ---------------------------- bounds ---------------------------------- *)
MaxInv == 2          \* webhook invocations observed in one run
MaxBursts == 1       \* bursts of deliveries carrying brand-new identifiers
MaxColdStarts == 1   \* process restarts
MaxTicks == 6        \* clock ticks of TickMs observed in one run
MaxCalls == 4        \* calls of the throttled progress callback observed in one run

(* ------------------------ program constants --------------------------- *)
MAX_CACHE_SIZE == 100

Invs == 1..MaxInv
EmptyId == 0

VARIABLES
  variant,               \* which deployment this process runs
  processedEvents,       \* Set<string>
  processedEventsQueue,  \* string[]
  pc,                    \* per invocation: position in the handler
  req,                   \* per invocation: the request it received
  resp,                  \* per invocation: the HTTP response returned
  calls,                 \* per invocation: collaborators/handlers invoked
  hpc,                   \* per invocation: position of the response handler's promise
  thread,                \* messages of the Slack thread (conversation state)
  statusTs,              \* global[message_<channel>_<thread>] of handle-app-mention
  admitLog,              \* history: identifiers in the order isEventProcessed recorded them
  lastCall,              \* history: the latest isEventProcessed call
  seenAt,                \* history: per invocation, Len(admitLog) when it arrived
  hadReply,              \* history: per invocation, the thread held a later bot reply on arrival
  arrivals,              \* history: number of requests received so far
  order,                 \* history: per invocation, its arrival number
  epoch,                 \* history: per invocation, the process (restart count) that received it
  bursts,                \* number of bursts so far
  fresh,                 \* brand-new identifiers used so far
  coldStarts,            \* process restarts so far
  sigIn,                 \* arguments and clock of a call of isValidSlackRequest
  sigOut,                \* what it returned
  now,                   \* Date.now(), in ms since the process was first invoked
  startAt,               \* history: per invocation, the clock when it arrived
  raceAt,                \* per invocation: the clock when its timer was armed
  fnIn,                  \* arguments of a function called on its own
  fnOut                  \* what that call returned

vars == << variant, processedEvents, processedEventsQueue, pc, req, resp, calls,
           hpc, thread, statusTs, admitLog, lastCall, seenAt, hadReply, arrivals,
           order, epoch,
           bursts, fresh, coldStarts, sigIn, sigOut, now, startAt, raceAt, fnIn, fnOut >>

(* ===================== Dedup cache: isEventProcessed ================== *)

\* JavaScript truthiness of an event identifier ('' and undefined are falsy)
Truthy(id) == id # EmptyId

\* Array.prototype.shift on the queue
Shift(q) == IF Len(q) = 0 THEN q ELSE Tail(q)

\* isEventProcessed evicting as soon as the queue holds MAX_CACHE_SIZE entries
isEventProcessed_EvictAtCapacity(set, queue, eventId) ==
  IF eventId \in set
    THEN [ret |-> TRUE, set |-> set, queue |-> queue]
    ELSE LET s1 == set \cup {eventId}
             q1 == Append(queue, eventId)
         IN IF Len(q1) >= MAX_CACHE_SIZE
              THEN [ret |-> FALSE, set |-> s1 \ {Head(q1)}, queue |-> Shift(q1)]
              ELSE [ret |-> FALSE, set |-> s1, queue |-> q1]

\* isEventProcessed that never evicts
isEventProcessed_NoEviction(set, queue, eventId) ==
  IF eventId \in set
    THEN [ret |-> TRUE, set |-> set, queue |-> queue]
    ELSE [ret |-> FALSE, set |-> set \cup {eventId}, queue |-> Append(queue, eventId)]

\* isEventProcessed evicting the newest of the older entries instead of the oldest
isEventProcessed_EvictNewest(set, queue, eventId) ==
  IF eventId \in set
    THEN [ret |-> TRUE, set |-> set, queue |-> queue]
    ELSE IF Len(queue) >= MAX_CACHE_SIZE
      THEN [ret |-> FALSE,
            set |-> (set \ {queue[Len(queue)]}) \cup {eventId},
            queue |-> Append(SubSeq(queue, 1, Len(queue) - 1), eventId)]
      ELSE [ret |-> FALSE, set |-> set \cup {eventId}, queue |-> Append(queue, eventId)]

\* isEventProcessed shifting the queue without deleting from the set
isEventProcessed_ShiftOnly(set, queue, eventId) ==
  IF eventId \in set
    THEN [ret |-> TRUE, set |-> set, queue |-> queue]
    ELSE LET s1 == set \cup {eventId}
             q1 == Append(queue, eventId)
         IN IF Len(q1) > MAX_CACHE_SIZE
              THEN [ret |-> FALSE, set |-> s1, queue |-> Shift(q1)]
              ELSE [ret |-> FALSE, set |-> s1, queue |-> q1]

\* isEventProcessed moving the identifier it hit to the young end of the queue
isEventProcessed_PromotesOnHit(set, queue, eventId) ==
  IF eventId \in set
    THEN [ret |-> TRUE, set |-> set,
          queue |-> Append(SelectSeq(queue, LAMBDA x : x # eventId), eventId)]
    ELSE LET s1 == set \cup {eventId}
             q1 == Append(queue, eventId)
         IN IF Len(q1) > MAX_CACHE_SIZE
              THEN LET oldestEventId == Head(q1)
                   IN [ret   |-> FALSE,
                       set   |-> IF Truthy(oldestEventId) THEN s1 \ {oldestEventId} ELSE s1,
                       queue |-> Shift(q1)]
              ELSE [ret |-> FALSE, set |-> s1, queue |-> q1]

\* State of the cache after isEventProcessed(eventId), and its return value.
isEventProcessed(set, queue, eventId) ==
  IF eventId \in set
    THEN [ret |-> TRUE, set |-> set, queue |-> queue]
    ELSE LET s1 == set \cup {eventId}
             q1 == Append(queue, eventId)
         IN IF Len(q1) > MAX_CACHE_SIZE
              THEN LET oldestEventId == Head(q1)
                   IN [ret   |-> FALSE,
                       set   |-> IF Truthy(oldestEventId) THEN s1 \ {oldestEventId} ELSE s1,
                       queue |-> Shift(q1)]
              ELSE [ret |-> FALSE, set |-> s1, queue |-> q1]

(* ============ Signature verifier: isValidSlackRequest ================= *)
\* A header value is a record [kind, val]: kind "absent" (no such header),
\* "empty" (''), "num" (decimal digits, value val) or "nan" (text that
\* parseInt cannot read).  A signature header is a record [kind, key, ts, body]:
\* kind "sig" is 'v0=' followed by the hex HMAC-SHA256 under key `key` of
\* v0:{ts}:{body}; kind "short" is text of another length; "absent"/"empty"
\* as above.  Distinct (key, base) pairs give distinct digests.

NoHeader == [kind |-> "absent", val |-> 0]
EmptyHeader == [kind |-> "empty", val |-> 0]
NumHeader(n) == [kind |-> "num", val |-> n]
NanHeader == [kind |-> "nan", val |-> 0]

signingSecret == "SLACK_SIGNING_SECRET"

Signature(key, ts, body) == [kind |-> "sig", key |-> key, ts |-> ts, body |-> body]
NoSignature == [kind |-> "absent", key |-> "", ts |-> NoHeader, body |-> ""]
EmptySignature == [kind |-> "empty", key |-> "", ts |-> NoHeader, body |-> ""]
ShortSignature == [kind |-> "short", key |-> "", ts |-> NoHeader, body |-> ""]

\* !value of a header string (undefined and '' are falsy)
HeaderFalsy(h) == h.kind \in {"absent", "empty"}

\* parseInt(timestamp): isNaN tells whether the result is NaN
ParseInt(h) == IF h.kind = "num" THEN [isNaN |-> FALSE, n |-> h.val]
                                 ELSE [isNaN |-> TRUE, n |-> 0]

Abs(x) == IF x < 0 THEN -x ELSE x

\* Math.abs(Date.now() / 1000 - parseInt(timestamp)) > 60 * 5, with nowMs = Date.now();
\* every comparison with NaN is false
TimestampOutOfRange(nowMs, h) ==
  LET t == ParseInt(h)
  IN IF t.isNaN THEN FALSE
     ELSE Abs(nowMs - 1000 * t.n) > (60 * 5) * 1000

\* crypto.timingSafeEqual(computed, supplied): throws on a length mismatch
TimingSafeEqual(computed, supplied) ==
  IF supplied.kind # "sig" THEN [threw |-> TRUE, eq |-> FALSE]
  ELSE [threw |-> FALSE, eq |-> (supplied = computed)]

isValidSlackRequest(timestamp, slackSignature, rawBody, nowMs) ==
  IF HeaderFalsy(timestamp) \/ HeaderFalsy(slackSignature) THEN FALSE
  ELSE IF TimestampOutOfRange(nowMs, timestamp) THEN FALSE
  ELSE LET computedSignature == Signature(signingSecret, timestamp, rawBody)
           cmp == TimingSafeEqual(computedSignature, slackSignature)
       IN IF cmp.threw THEN FALSE ELSE cmp.eq

\* verifyRequest returns true to signal a FAILED verification
verifyRequest(requestType, timestamp, slackSignature, rawBody, nowMs) ==
  LET validRequest == isValidSlackRequest(timestamp, slackSignature, rawBody, nowMs)
  IN (~validRequest) \/ requestType # "event_callback"

\* the arguments of one call, the clock it reads, and what it returned
SigIn(t, sg, n) == [timestamp |-> t, slackSignature |-> sg, nowMs |-> n]
NoSigIn == SigIn(NoHeader, NoSignature, 0)
SigPending == [returned |-> FALSE, value |-> FALSE]
SigReturned(v) == [returned |-> TRUE, value |-> v]

\* the same for any other function called on its own
NoFnIn == [fn |-> "none"]
FnPending == [returned |-> FALSE]
FnReturned(v) == [returned |-> TRUE, value |-> v]

\* everything a function called on its own leaves alone
fnFrame ==
  << variant, sigIn, sigOut, processedEvents, processedEventsQueue, pc, req, resp,
     calls, hpc, thread, statusTs, admitLog, lastCall, seenAt, hadReply, arrivals,
     order, epoch, bursts, fresh, coldStarts, now, startAt, raceAt, fnIn >>


(* ================= Slack conversation (collaborator) ================== *)
\* A message is [bot_id, thread_ts, ts]; bot_id "" is a human author.  A
\* thread's root carries thread_ts = ts.
BotId == "B_BOT"        \* bot_id reported by auth.test
BotUserId == "U_BOT"    \* user_id reported by auth.test

Message(b, th, t) == [bot_id |-> b, thread_ts |-> th, ts |-> t]

SeqMax(q) == IF Len(q) = 0 THEN 0
             ELSE CHOOSE m \in {q[k].ts : k \in 1..Len(q)} :
                    \A k \in 1..Len(q) : q[k].ts <= m

\* chat.postMessage by the bot into thread th: Slack stamps the message later
\* than every message it already holds
PostMessage(conv, th) == Append(conv, Message(BotId, th, SeqMax(conv) + 1))

Prefix(q, n) == SubSeq(q, 1, IF Len(q) < n THEN Len(q) ELSE n)

\* conversations.replies({channel, ts: threadTs, limit})
Replies(conv, threadTs, limit) ==
  Prefix(SelectSeq(conv, LAMBDA m : m.thread_ts = threadTs), limit)

(* ====================== Events and requests =========================== *)
\* An event is [type, subtype, channel_type, bot_id, bot_profile, hasChannelTs,
\* ts, thread_ts]; thread_ts = 0 stands for an absent thread_ts.
Event(ty, st, ct, b, bp, hc, t, th) ==
  [type |-> ty, subtype |-> st, channel_type |-> ct, bot_id |-> b,
   bot_profile |-> bp, hasChannelTs |-> hc, ts |-> t, thread_ts |-> th]

NoEvent == Event("none", FALSE, "", "", FALSE, FALSE, 0, 0)

\* thread_ts || ts
ThreadTsOf(ev) == IF ev.thread_ts # 0 THEN ev.thread_ts ELSE ev.ts

\* lambda.ts isMessageEvent
isMessageEvent(ev) ==
  ev.type \in {"app_mention", "message"} /\ ev.hasChannelTs

\* isDirectMessage without the test of the channel type
isDirectMessage_AnyChannel(ev, botUserId) ==
  /\ ev.type = "message"
  /\ ~ev.subtype
  /\ ~(ev.bot_id # "")
  /\ ~ev.bot_profile
  /\ ~(ev.bot_id = botUserId)

\* the direct-message branch condition of the routers
isDirectMessage(ev, botUserId) ==
  /\ ev.type = "message"
  /\ ~ev.subtype
  /\ ev.channel_type = "im"
  /\ ~(ev.bot_id # "")
  /\ ~ev.bot_profile
  /\ ~(ev.bot_id = botUserId)

\* checkIfAlreadyResponded counting the bot's messages earlier than the event
checkIfAlreadyResponded_EarlierReplies(ev, conv, fetchOk, authOk) ==
  IF ~ev.hasChannelTs THEN FALSE
  ELSE IF ~fetchOk THEN FALSE
  ELSE LET threadTs == ThreadTsOf(ev)
           messages == Replies(conv, threadTs, 10)
       IN IF Len(messages) <= 1 THEN FALSE
          ELSE IF ~authOk THEN FALSE
          ELSE LET botMessages == SelectSeq(messages, LAMBDA m :
                     m.bot_id = BotId /\ m.thread_ts = threadTs /\ m.ts < ev.ts)
               IN Len(botMessages) > 0

\* checkIfAlreadyResponded answering true when conversations.replies or auth.test fails
checkIfAlreadyResponded_FailClosed(ev, conv, fetchOk, authOk) ==
  IF ~ev.hasChannelTs THEN FALSE
  ELSE IF ~fetchOk THEN TRUE
  ELSE LET threadTs == ThreadTsOf(ev)
           messages == Replies(conv, threadTs, 10)
       IN IF Len(messages) <= 1 THEN FALSE
          ELSE IF ~authOk THEN TRUE
          ELSE LET botMessages == SelectSeq(messages, LAMBDA m :
                     m.bot_id = BotId /\ m.thread_ts = threadTs /\ m.ts > ev.ts)
               IN Len(botMessages) > 0

\* checkIfAlreadyResponded counting a message of the bot stamped like the event
checkIfAlreadyResponded_NotStrict(ev, conv, fetchOk, authOk) ==
  IF ~ev.hasChannelTs THEN FALSE
  ELSE IF ~fetchOk THEN FALSE
  ELSE LET threadTs == ThreadTsOf(ev)
           messages == Replies(conv, threadTs, 10)
       IN IF Len(messages) <= 1 THEN FALSE
          ELSE IF ~authOk THEN FALSE
          ELSE LET botMessages == SelectSeq(messages, LAMBDA m :
                     m.bot_id = BotId /\ m.thread_ts = threadTs /\ m.ts >= ev.ts)
               IN Len(botMessages) > 0

\* checkIfAlreadyResponded taking a single later message of the bot, such as
\* a status message on its own, for no answer
checkIfAlreadyResponded_NeedsTwo(ev, conv, fetchOk, authOk) ==
  IF ~ev.hasChannelTs THEN FALSE
  ELSE IF ~fetchOk THEN FALSE
  ELSE LET threadTs == ThreadTsOf(ev)
           messages == Replies(conv, threadTs, 10)
       IN IF Len(messages) <= 1 THEN FALSE
          ELSE IF ~authOk THEN FALSE
          ELSE LET botMessages == SelectSeq(messages, LAMBDA m :
                     m.bot_id = BotId /\ m.thread_ts = threadTs /\ m.ts > ev.ts)
               IN Len(botMessages) > 1

\* checkIfAlreadyResponded, given whether conversations.replies and auth.test succeed
checkIfAlreadyResponded(ev, conv, fetchOk, authOk) ==
  IF ~ev.hasChannelTs THEN FALSE
  ELSE IF ~fetchOk THEN FALSE
  ELSE LET threadTs == ThreadTsOf(ev)
           messages == Replies(conv, threadTs, 10)
       IN IF Len(messages) <= 1 THEN FALSE
          ELSE IF ~authOk THEN FALSE
          ELSE LET botMessages == SelectSeq(messages, LAMBDA m :
                     m.bot_id = BotId /\ m.thread_ts = threadTs /\ m.ts > ev.ts)
               IN Len(botMessages) > 0

\* the fetched page of the thread holds a reply of the bot later than the event
BotRepliedLater(r, conv) ==
  /\ r.body = "object" /\ r.hasEvent /\ r.ev.hasChannelTs
  /\ \E k \in 1..Len(Replies(conv, ThreadTsOf(r.ev), 10)) :
        LET m == Replies(conv, ThreadTsOf(r.ev), 10)[k]
        IN m.bot_id = BotId /\ m.thread_ts = ThreadTsOf(r.ev) /\ m.ts > r.ev.ts

\* what checkIfAlreadyResponded leaves in the log: its own name, and a '!' entry
\* when its catch (119-122) swallowed a rejection of conversations.replies or
\* of auth.test and so turned a true answer into false
HistoryCalls(ev, conv, fetchOk, authOk) ==
  LET failedOpen == /\ checkIfAlreadyResponded(ev, conv, TRUE, TRUE)
                    /\ ~checkIfAlreadyResponded(ev, conv, fetchOk, authOk)
  IN {"checkIfAlreadyResponded"}
       \cup (IF failedOpen THEN {"checkIfAlreadyResponded!"} ELSE {})

NoChallenge == "undefined"

\* A request is what the handler reads of it: body tells what JSON.parse makes
\* of the raw body ("unparseable", "null", "scalar", "object"); the other
\* fields are those of the parsed object and the two signature headers;
\* headers lists the other entries of event.headers as << name, value >> pairs
\* in key order.
Request(b, ty, ch, he, id, ev, th, sh) ==
  [body |-> b, type |-> ty, challenge |-> ch, hasEvent |-> he, event_id |-> id,
   ev |-> ev, tsHdr |-> th, sigHdr |-> sh, headers |-> << >>]

WithHeaders(r, hs) == [r EXCEPT !.headers = hs]

(* ----------------- isRetryRequest and the deadline -------------------- *)
\* ToLowerCase leaving the name as it was sent
ToLowerCase_AsSent(name) == name

\* String.prototype.toLowerCase on the header names of the model
ToLowerCase(name) ==
  CASE name = "X-Slack-Retry-Num" -> "x-slack-retry-num"
    [] name = "X-SLACK-RETRY-NUM" -> "x-slack-retry-num"
    [] name = "X-Slack-Retry-Reason" -> "x-slack-retry-reason"
    [] OTHER -> name

\* headers_lower[key]: the value of the last entry whose lower-cased name is
\* key, "" standing for undefined as well as for ''
HeadersLower(hs, key) ==
  LET at == { k \in 1..Len(hs) : ToLowerCase(hs[k][1]) = key }
  IN IF at = {} THEN ""
     ELSE hs[CHOOSE k \in at : \A j \in at : j <= k][2]

\* isRetryRequest (18-34)
isRetryRequest(hs) == HeadersLower(hs, "x-slack-retry-num") # ""

\* const timeoutMs = isRetry ? 120000 : 160000 (148, 173)
timeoutMs(r) == IF isRetryRequest(r.headers) THEN 120000 ELSE 160000

\* the execution ceiling of the Lambda function the comment at 171 names
LambdaCeilingMs == 180000

RawBody == "rawBody"
NoRequest == Request("none", "", NoChallenge, FALSE, EmptyId, NoEvent, NoHeader, NoSignature)

(* --------------------- the inputs of the model ------------------------ *)
EvMention == Event("app_mention", FALSE, "channel", "", FALSE, TRUE, 10, 0)
EvDM == Event("message", FALSE, "im", "", FALSE, TRUE, 21, 20)
EvStarted == Event("assistant_thread_started", FALSE, "", "", FALSE, FALSE, 0, 30)
EvOther == Event("reaction_added", FALSE, "", "", FALSE, FALSE, 0, 0)

\* event_id -> event, as Slack delivers them; identifier 0 is a delivery without event_id
Catalogue == { <<1, EvMention>>, <<2, EvDM>>, <<3, EvStarted>>, <<0, EvOther>> }
CatalogueIds == { c[1] : c \in Catalogue }
FreshId(k) == Cardinality(CatalogueIds) + k

ThreadKeys == { ThreadTsOf(c[2]) : c \in Catalogue }

\* Date.now() when the handler verifies, and the headers Slack (or a forger) sends
HandlerNow == 301 * 1000
GoodTs == NumHeader(301)
GoodSig == Signature(signingSecret, GoodTs, RawBody)
ForgedSig == Signature("forged", GoodTs, RawBody)

EventCallback(id, ev, signed) ==
  Request("object", "event_callback", NoChallenge, TRUE, id, ev, GoodTs,
          IF signed THEN GoodSig ELSE ForgedSig)

Requests ==
  { Request(b, "", NoChallenge, FALSE, EmptyId, NoEvent, NoHeader, NoSignature) :
      b \in {"unparseable", "null", "scalar"} }
  \cup { Request("object", "url_verification", "abc123", FALSE, EmptyId, NoEvent,
                 NoHeader, NoSignature) }
  \cup { Request("object", ty, NoChallenge, FALSE, EmptyId, NoEvent, GoodTs, GoodSig) :
           ty \in {"event_callback", "block_actions"} }
  \cup { EventCallback(c[1], c[2], TRUE) : c \in Catalogue }
  \cup { EventCallback(c[1], c[2], FALSE) : c \in {<<1, EvMention>>, <<2, EvDM>>} }

InitConversation ==
  << Message("", 10, 10), Message("", 20, 20), Message("", 20, 21) >>

(* ======================= responses and handlers ======================= *)
Resp(st, tx, ch) == [status |-> st, text |-> tx, challenge |-> ch]
NoResp == Resp(0, "", NoChallenge)

\* position of a response handler's promise and the message its updater edits
Handler(a, t) == [at |-> a, target |-> t]
NoHandler == Handler("none", 0)

\* the response to a url_verification request (89-95): a JSON body with the
\* challenge of the payload
UrlVerificationResponse_NoChallenge(r) == Resp(200, "json", NoChallenge)

UrlVerificationResponse(r) == Resp(200, "json", r.challenge)

\* the response of the catch of the inner try (229-235)
InnerCatch_Status500 == Resp(500, "Error occurred", NoChallenge)

InnerCatch == Resp(200, "Error occurred", NoChallenge)

Settled(h) == h.at \in {"resolved", "rejected"}

\* handleNewAppMention up to its first network call
MentionStart(ev, st) ==
  IF ev.bot_id # "" \/ ev.bot_id = BotUserId \/ ev.bot_profile
    THEN Handler("resolved", 0)
  ELSE IF st[ThreadTsOf(ev)] # 0
    THEN Handler("generate", st[ThreadTsOf(ev)])
  ELSE Handler("post_status", 0)

\* handleNewAssistantMessage up to its first network call
DMStart(ev) ==
  IF ev.bot_id # "" \/ ev.bot_id = BotUserId \/ ev.bot_profile \/ ev.thread_ts = 0
    THEN Handler("resolved", 0)
  ELSE Handler("dm_status", 0)

\* lambda.ts 176-228: the branch on the event type after the dedup checks
LambdaDispatch(ev, st) ==
  IF ev.type = "app_mention"
    THEN [to |-> "race", call |-> {"handleNewAppMention"}, h |-> MentionStart(ev, st)]
  ELSE IF ev.type = "assistant_thread_started"
    THEN [to |-> "race", call |-> {"assistantThreadMessage"}, h |-> Handler("g_post", 0)]
  ELSE IF isDirectMessage(ev, BotUserId)
    THEN [to |-> "race", call |-> {"handleNewAssistantMessage"}, h |-> DMStart(ev)]
  ELSE [to |-> "done", call |-> {}, h |-> NoHandler]

\* LambdaEntry going on to the verification whatever isEventProcessed returned
LambdaEntry_NoShortCircuit(r, set, queue) ==
  LET noDedup == [ret |-> FALSE, set |-> set, queue |-> queue]
      seen == isEventProcessed(set, queue, r.event_id)
  IN IF r.body \in {"unparseable", "null"}
       THEN [to |-> "done", resp |-> Resp(500, "Error processing request", NoChallenge),
             dedup |-> FALSE, cache |-> noDedup]
     ELSE IF r.body = "object" /\ r.type = "url_verification"
       THEN [to |-> "done", resp |-> UrlVerificationResponse(r),
             dedup |-> FALSE, cache |-> noDedup]
     ELSE IF r.body = "object" /\ r.type = "event_callback" /\ r.hasEvent
       THEN [to |-> "verify", resp |-> NoResp, dedup |-> Truthy(r.event_id),
             cache |-> IF Truthy(r.event_id) THEN seen ELSE noDedup]
     ELSE [to |-> "done", resp |-> Resp(200, "Success!", NoChallenge),
           dedup |-> FALSE, cache |-> noDedup]

\* lambda.ts 76-115: the synchronous part of the handler, from JSON.parse to the
\* first await
LambdaEntry(r, set, queue) ==
  LET noDedup == [ret |-> FALSE, set |-> set, queue |-> queue]
      seen == isEventProcessed(set, queue, r.event_id)
  IN IF r.body = "unparseable"
       THEN [to |-> "done", resp |-> Resp(500, "Error processing request", NoChallenge),
             dedup |-> FALSE, cache |-> noDedup]
     ELSE IF r.body = "null"
       THEN [to |-> "done", resp |-> Resp(500, "Error processing request", NoChallenge),
             dedup |-> FALSE, cache |-> noDedup]
     ELSE IF r.body = "scalar"
       THEN [to |-> "done", resp |-> Resp(200, "Success!", NoChallenge),
             dedup |-> FALSE, cache |-> noDedup]
     ELSE IF r.type = "url_verification"
       THEN [to |-> "done", resp |-> UrlVerificationResponse(r),
             dedup |-> FALSE, cache |-> noDedup]
     ELSE IF r.type = "event_callback" /\ r.hasEvent /\ Truthy(r.event_id)
       THEN IF seen.ret
              THEN [to |-> "done", resp |-> Resp(200, "Event already processed", NoChallenge),
                    dedup |-> TRUE, cache |-> seen]
              ELSE [to |-> "verify", resp |-> NoResp, dedup |-> TRUE, cache |-> seen]
     ELSE IF r.type = "event_callback" /\ r.hasEvent
       THEN [to |-> "verify", resp |-> NoResp, dedup |-> FALSE, cache |-> noDedup]
     ELSE [to |-> "done", resp |-> Resp(200, "Success!", NoChallenge),
           dedup |-> FALSE, cache |-> noDedup]

(* ======================== history bookkeeping ========================= *)
Known(log, x) == \E k \in 1..Len(log) : log[k] = x
InLastN(log, n, x) == \E k \in 1..Len(log) : k > Len(log) - n /\ log[k] = x

NoCall == [id |-> EmptyId, ret |-> FALSE, known |-> FALSE, recent |-> FALSE, n |-> 0]

\* the record of a call isEventProcessed(id) that returned ret, made when the
\* recorded identifiers were log
CallRecord(log, id, ret, n) ==
  [id |-> id, ret |-> ret, known |-> Known(log, id),
   recent |-> InLastN(log, MAX_CACHE_SIZE, id), n |-> n]

LogAfter(log, id, ret) == IF ret THEN log ELSE Append(log, id)

\* k deliveries one after the other, each carrying an identifier never seen
\* before: isEventProcessed applied to FreshId(from+1), ..., FreshId(from+k) in
\* this order (the first half of them, then the rest)
BurstOne(st, id) ==
  LET c == isEventProcessed(st.set, st.queue, id)
  IN [set |-> c.set, queue |-> c.queue, log |-> LogAfter(st.log, id, c.ret),
      last |-> CallRecord(st.log, id, c.ret, st.last.n + 1)]

RECURSIVE BurstFold(_, _, _)
BurstFold(st, from, k) ==
  IF k = 0 THEN st
  ELSE IF k = 1 THEN BurstOne(st, FreshId(from + 1))
  ELSE LET h == k \div 2
           mid == BurstFold(st, from, h)
       IN IF mid.last.n > st.last.n THEN BurstFold(mid, from + h, k - h) ELSE mid

BurstSizes == {MAX_CACHE_SIZE - 1, MAX_CACHE_SIZE}

(* ======================= Lambda handler (lambda.ts) =================== *)
cacheVars == << processedEvents, processedEventsQueue, admitLog, lastCall >>
\* what no step of a request handler writes, and the same with the timers
quietVars == << variant, bursts, fresh, coldStarts, sigIn, sigOut, now, fnIn, fnOut >>
envVars == << quietVars, raceAt >>
slackVars == << thread, statusTs >>
arrivalVars == << req, seenAt, hadReply, arrivals, order, epoch, startAt >>

Finish(i, r) == /\ pc' = [pc EXCEPT ![i] = "done"]
                /\ resp' = [resp EXCEPT ![i] = r]

\* a request arrives: JSON.parse, url_verification, the cache check (72-115)
L_Receive(i, r) ==
  /\ variant = "lambda"
  /\ pc[i] = "idle"
  /\ \A j \in Invs : j < i => pc[j] # "idle"
  /\ LET e == LambdaEntry(r, processedEvents, processedEventsQueue)
     IN /\ processedEvents' = e.cache.set
        /\ processedEventsQueue' = e.cache.queue
        /\ admitLog' = IF e.dedup THEN LogAfter(admitLog, r.event_id, e.cache.ret)
                                  ELSE admitLog
        /\ lastCall' = IF e.dedup
                         THEN CallRecord(admitLog, r.event_id, e.cache.ret, lastCall.n + 1)
                         ELSE lastCall
        /\ pc' = [pc EXCEPT ![i] = e.to]
        /\ resp' = [resp EXCEPT ![i] = e.resp]
        /\ calls' = [calls EXCEPT ![i] = IF e.dedup THEN {"isEventProcessed"} ELSE {}]
  /\ req' = [req EXCEPT ![i] = r]
  /\ seenAt' = [seenAt EXCEPT ![i] = Len(admitLog)]
  /\ hadReply' = [hadReply EXCEPT ![i] = BotRepliedLater(r, thread)]
  /\ startAt' = [startAt EXCEPT ![i] = now]
  /\ arrivals' = arrivals + 1
  /\ order' = [order EXCEPT ![i] = arrivals + 1]
  /\ epoch' = [epoch EXCEPT ![i] = coldStarts]
  /\ UNCHANGED << hpc, envVars, slackVars >>

\* L_Verify taking the event_id back out of the cache when the verification
\* fails
L_Verify_ForgetsOnFailure(i) ==
  /\ variant = "lambda"
  /\ pc[i] = "verify"
  /\ calls' = [calls EXCEPT ![i] = @ \cup {"verifyRequest"}]
  /\ IF verifyRequest(req[i].type, req[i].tsHdr, req[i].sigHdr, RawBody, HandlerNow)
       THEN /\ Finish(i, Resp(200, "Verification failed", NoChallenge))
            /\ processedEvents' = processedEvents \ {req[i].event_id}
            /\ processedEventsQueue' =
                 SelectSeq(processedEventsQueue, LAMBDA x : x # req[i].event_id)
       ELSE /\ pc' = [pc EXCEPT ![i] = "getBotId"]
            /\ UNCHANGED << resp, processedEvents, processedEventsQueue >>
  /\ UNCHANGED << hpc, admitLog, lastCall, envVars, slackVars, arrivalVars >>

\* await verifyRequest(...) and the return on a failed verification (129-142)
L_Verify(i) ==
  /\ variant = "lambda"
  /\ pc[i] = "verify"
  /\ calls' = [calls EXCEPT ![i] = @ \cup {"verifyRequest"}]
  /\ IF verifyRequest(req[i].type, req[i].tsHdr, req[i].sigHdr, RawBody, HandlerNow)
       THEN Finish(i, Resp(200, "Verification failed", NoChallenge))
       ELSE /\ pc' = [pc EXCEPT ![i] = "getBotId"]
            /\ UNCHANGED resp
  /\ UNCHANGED << hpc, cacheVars, envVars, slackVars, arrivalVars >>

\* the branch on the event type (176-228), taken synchronously once the checks passed
L_Dispatch(i, soFar) ==
  LET d == LambdaDispatch(req[i].ev, statusTs)
  IN /\ pc' = [pc EXCEPT ![i] = d.to]
     /\ resp' = [resp EXCEPT ![i] = IF d.to = "done"
                                      THEN Resp(200, "Processing completed", NoChallenge)
                                      ELSE NoResp]
     /\ calls' = [calls EXCEPT ![i] = soFar \cup d.call]
     /\ hpc' = [hpc EXCEPT ![i] = d.h]

\* L_GetBotId going on to the dispatch without the thread-history check
L_GetBotId_SkipsHistory(i, ok) ==
  /\ variant = "lambda"
  /\ pc[i] = "getBotId"
  /\ IF ~ok
       THEN /\ Finish(i, InnerCatch)
            /\ calls' = [calls EXCEPT ![i] = @ \cup {"getBotId", "getBotId!"}]
            /\ UNCHANGED hpc
     ELSE L_Dispatch(i, calls[i] \cup {"getBotId"})
  /\ raceAt' = [raceAt EXCEPT ![i] = now]
  /\ UNCHANGED << cacheVars, quietVars, slackVars, arrivalVars >>

\* L_GetBotId going on without the identity when getBotId rejected
L_GetBotId_IgnoresFailure(i, ok) ==
  /\ variant = "lambda"
  /\ pc[i] = "getBotId"
  /\ LET soFar == calls[i] \cup {"getBotId"} \cup (IF ok THEN {} ELSE {"getBotId!"})
     IN IF isMessageEvent(req[i].ev)
          THEN /\ pc' = [pc EXCEPT ![i] = "history"]
               /\ calls' = [calls EXCEPT ![i] = soFar]
               /\ UNCHANGED << resp, hpc >>
        ELSE L_Dispatch(i, soFar)
  /\ raceAt' = [raceAt EXCEPT ![i] = now]
  /\ UNCHANGED << cacheVars, quietVars, slackVars, arrivalVars >>

\* await getBotId() (144); a rejection is caught at 229-235 and leaves a '!'
\* entry in the log of the invocation
L_GetBotId(i, ok) ==
  /\ variant = "lambda"
  /\ pc[i] = "getBotId"
  /\ IF ~ok
       THEN /\ Finish(i, InnerCatch)
            /\ calls' = [calls EXCEPT ![i] = @ \cup {"getBotId", "getBotId!"}]
            /\ UNCHANGED hpc
     ELSE IF isMessageEvent(req[i].ev)
       THEN /\ pc' = [pc EXCEPT ![i] = "history"]
            /\ calls' = [calls EXCEPT ![i] = @ \cup {"getBotId"}]
            /\ UNCHANGED << resp, hpc >>
     ELSE L_Dispatch(i, calls[i] \cup {"getBotId"})
  /\ raceAt' = [raceAt EXCEPT ![i] = now]
  /\ UNCHANGED << cacheVars, quietVars, slackVars, arrivalVars >>

\* await checkIfAlreadyResponded(slackEvent) (153-169)
L_History(i, fetchOk, authOk) ==
  /\ variant = "lambda"
  /\ pc[i] = "history"
  /\ IF checkIfAlreadyResponded(req[i].ev, thread, fetchOk, authOk)
       THEN /\ Finish(i, Resp(200, "Event already processed (verified via thread history)", NoChallenge))
            /\ calls' = [calls EXCEPT ![i] = @ \cup HistoryCalls(req[i].ev, thread, fetchOk, authOk)]
            /\ UNCHANGED hpc
       ELSE L_Dispatch(i, calls[i] \cup HistoryCalls(req[i].ev, thread, fetchOk, authOk))
  /\ raceAt' = [raceAt EXCEPT ![i] = now]
  /\ UNCHANGED << cacheVars, quietVars, slackVars, arrivalVars >>

\* Promise.race settles with the handler's promise (180-184, 203-206, 215-219)
L_RaceHandler(i) ==
  /\ variant = "lambda"
  /\ pc[i] = "race"
  /\ Settled(hpc[i])
  /\ IF req[i].ev.type = "app_mention" /\ hpc[i].at = "rejected"
       THEN /\ pc' = [pc EXCEPT ![i] = "apology"]
            /\ UNCHANGED resp
       ELSE Finish(i, Resp(200, "Processing completed", NoChallenge))
  /\ UNCHANGED << calls, hpc, cacheVars, envVars, slackVars, arrivalVars >>

\* L_RaceTimeout with a timer that overrides a handler settled before it fired
L_RaceTimeout_OverridesHandler(i) ==
  /\ variant = "lambda"
  /\ pc[i] = "race"
  /\ IF req[i].ev.type = "app_mention"
       THEN /\ pc' = [pc EXCEPT ![i] = "apology"]
            /\ UNCHANGED resp
       ELSE Finish(i, Resp(200, "Processing completed", NoChallenge))
  /\ UNCHANGED << calls, hpc, cacheVars, envVars, slackVars, arrivalVars >>

\* createTimeout(timeoutMs) rejects before the handler's promise settles (11-15)
L_RaceTimeout(i) ==
  /\ variant = "lambda"
  /\ pc[i] = "race"
  /\ ~Settled(hpc[i])
  /\ IF req[i].ev.type = "app_mention"
       THEN /\ pc' = [pc EXCEPT ![i] = "apology"]
            /\ UNCHANGED resp
       ELSE Finish(i, Resp(200, "Processing completed", NoChallenge))
  /\ UNCHANGED << calls, hpc, cacheVars, envVars, slackVars, arrivalVars >>

\* the apology posted in the catch block of the mention branch (185-200)
L_Apology(i, ok) ==
  /\ variant = "lambda"
  /\ pc[i] = "apology"
  /\ Finish(i, Resp(200, "Processing completed", NoChallenge))
  /\ calls' = [calls EXCEPT ![i] = @ \cup {"postMessage"}]
  /\ thread' = IF ok /\ isMessageEvent(req[i].ev)
                 THEN PostMessage(thread, ThreadTsOf(req[i].ev)) ELSE thread
  /\ UNCHANGED << hpc, statusTs, cacheVars, envVars, arrivalVars >>

\* MaxBursts times, k deliveries carrying brand-new identifiers and a forged
\* signature run one after the other: each records its identifier (103-104)
\* and returns at the failed verification (136-141).  They come between two
\* tracked invocations.
L_Burst(k) ==
  /\ variant = "lambda"
  /\ bursts < MaxBursts
  /\ \A i \in Invs : pc[i] \in {"idle", "done"}
  /\ \E i \in Invs : pc[i] = "idle"
  /\ \E st \in {BurstFold([set |-> processedEvents, queue |-> processedEventsQueue,
                          log |-> admitLog, last |-> lastCall], fresh, k)} :
        /\ processedEvents' = st.set
        /\ processedEventsQueue' = st.queue
        /\ admitLog' = st.log
        /\ lastCall' = st.last
  /\ bursts' = bursts + 1
  /\ fresh' = fresh + k
  /\ UNCHANGED << variant, sigIn, sigOut, now, raceAt, fnIn, fnOut, coldStarts, pc, resp,
                  calls, hpc, slackVars, arrivalVars >>

(* ============ response handlers (src/lib/generate-response.ts) ======== *)
\* A response handler is a promise started by the router.  On Lambda the
\* process runs only while an invocation is in flight: once the handler of
\* lambda.ts has returned, an abandoned response handler makes no step until
\* another invocation resumes the process.
Thawed == variant # "lambda" \/ \E j \in Invs : pc[j] \notin {"idle", "done"}
handlerFrame == << pc, resp, calls, cacheVars, envVars, arrivalVars >>

\* updateStatusUtil of handle-app-mention: post the initial status message and
\* remember it in global[message_<channel>_<thread>] (228-261)
H_PostStatus(i, ok) ==
  /\ Thawed
  /\ hpc[i].at = "post_status"
  /\ LET key == ThreadTsOf(req[i].ev)
         ts == SeqMax(thread) + 1
     IN IF ok
          THEN /\ thread' = PostMessage(thread, key)
               /\ statusTs' = [statusTs EXCEPT ![key] = ts]
               /\ hpc' = [hpc EXCEPT ![i] = Handler("generate", ts)]
          ELSE /\ hpc' = [hpc EXCEPT ![i] = Handler("generate", 0)]
               /\ UNCHANGED << thread, statusTs >>
  /\ UNCHANGED handlerFrame

\* getThread and generateResponse; a failure is caught at 300-303
H_Generate(i) ==
  /\ Thawed
  /\ hpc[i].at = "generate"
  /\ hpc' = [hpc EXCEPT ![i] = Handler("final", @.target)]
  /\ UNCHANGED << handlerFrame, slackVars >>

\* updateMessage(result) or updateMessage(error text): chat.update in place (298, 302)
H_Final(i) ==
  /\ Thawed
  /\ hpc[i].at = "final"
  /\ hpc' = [hpc EXCEPT ![i] = Handler("resolved", @.target)]
  /\ UNCHANGED << handlerFrame, slackVars >>

\* handleNewAssistantMessage: updateStatus("is thinking...") posts a message (358-359)
D_Status(i, ok) ==
  /\ Thawed
  /\ hpc[i].at = "dm_status"
  /\ thread' = IF ok THEN PostMessage(thread, ThreadTsOf(req[i].ev)) ELSE thread
  /\ hpc' = [hpc EXCEPT ![i] = Handler("dm_generate", 0)]
  /\ UNCHANGED << handlerFrame, statusTs >>

\* getThread and generateResponse (361-362); a failure rejects the handler
D_Generate(i, ok) ==
  /\ Thawed
  /\ hpc[i].at = "dm_generate"
  /\ hpc' = [hpc EXCEPT ![i] = Handler(IF ok THEN "dm_post" ELSE "rejected", 0)]
  /\ UNCHANGED << handlerFrame, slackVars >>

\* chat.postMessage of the reply (364-378)
D_Post(i, ok) ==
  /\ Thawed
  /\ hpc[i].at = "dm_post"
  /\ thread' = IF ok THEN PostMessage(thread, ThreadTsOf(req[i].ev)) ELSE thread
  /\ hpc' = [hpc EXCEPT ![i] = Handler(IF ok THEN "dm_clear" ELSE "rejected", 0)]
  /\ UNCHANGED << handlerFrame, statusTs >>

\* updateStatus("") (380): one more chat.postMessage, errors swallowed
D_Clear(i, ok) ==
  /\ Thawed
  /\ hpc[i].at = "dm_clear"
  /\ thread' = IF ok THEN PostMessage(thread, ThreadTsOf(req[i].ev)) ELSE thread
  /\ hpc' = [hpc EXCEPT ![i] = Handler("resolved", 0)]
  /\ UNCHANGED << handlerFrame, statusTs >>

\* assistantThreadMessage: the greeting (321-325)
G_Post(i, ok) ==
  /\ Thawed
  /\ hpc[i].at = "g_post"
  /\ thread' = IF ok THEN PostMessage(thread, ThreadTsOf(req[i].ev)) ELSE thread
  /\ hpc' = [hpc EXCEPT ![i] = Handler(IF ok THEN "g_prompts" ELSE "rejected", 0)]
  /\ UNCHANGED << handlerFrame, statusTs >>

\* assistantThreadMessage: setSuggestedPrompts (327-340)
G_Prompts(i, ok) ==
  /\ Thawed
  /\ hpc[i].at = "g_prompts"
  /\ hpc' = [hpc EXCEPT ![i] = Handler(IF ok THEN "resolved" ELSE "rejected", 0)]
  /\ UNCHANGED << handlerFrame, slackVars >>

MentionStep(i) ==
  \/ \E ok \in BOOLEAN : H_PostStatus(i, ok)
  \/ H_Generate(i)
  \/ H_Final(i)

DirectMessageStep(i) ==
  \/ \E ok \in BOOLEAN : D_Status(i, ok)
  \/ \E ok \in BOOLEAN : D_Generate(i, ok)
  \/ \E ok \in BOOLEAN : D_Post(i, ok)
  \/ \E ok \in BOOLEAN : D_Clear(i, ok)

GreetingStep(i) ==
  \/ \E ok \in BOOLEAN : G_Post(i, ok)
  \/ \E ok \in BOOLEAN : G_Prompts(i, ok)

(* ============================ process ================================= *)
\* The process is recycled between two invocations: module state (the cache,
\* the globals) starts empty again and an abandoned response handler is gone;
\* Slack keeps the conversation.
ColdStart ==
  /\ variant = "lambda"
  /\ coldStarts < MaxColdStarts
  /\ \A i \in Invs : pc[i] \in {"idle", "done"}
  /\ \E i \in Invs : pc[i] = "idle"
  /\ \E i \in Invs : pc[i] = "done" /\ epoch[i] = coldStarts
  /\ coldStarts' = coldStarts + 1
  /\ processedEvents' = {}
  /\ processedEventsQueue' = << >>
  /\ admitLog' = << >>
  /\ lastCall' = NoCall
  /\ statusTs' = [k \in ThreadKeys |-> 0]
  /\ hpc' = [i \in Invs |-> IF hpc[i].at = "none" \/ Settled(hpc[i])
                              THEN hpc[i] ELSE Handler("killed", hpc[i].target)]
  /\ UNCHANGED << variant, sigIn, sigOut, now, raceAt, fnIn, fnOut, bursts, fresh, pc, resp,
                  calls, thread, arrivalVars >>

InitProcess ==
  /\ processedEvents = {}
  /\ processedEventsQueue = << >>
  /\ pc = [i \in Invs |-> "idle"]
  /\ req = [i \in Invs |-> NoRequest]
  /\ resp = [i \in Invs |-> NoResp]
  /\ calls = [i \in Invs |-> {}]
  /\ hpc = [i \in Invs |-> NoHandler]
  /\ thread = InitConversation
  /\ statusTs = [k \in ThreadKeys |-> 0]
  /\ admitLog = << >>
  /\ lastCall = NoCall
  /\ seenAt = [i \in Invs |-> 0]
  /\ hadReply = [i \in Invs |-> FALSE]
  /\ arrivals = 0
  /\ order = [i \in Invs |-> 0]
  /\ epoch = [i \in Invs |-> 0]
  /\ bursts = 0
  /\ fresh = 0
  /\ coldStarts = 0
  /\ now = 0
  /\ startAt = [i \in Invs |-> 0]
  /\ raceAt = [i \in Invs |-> 0]

InitCommon ==
  /\ sigIn = NoSigIn
  /\ sigOut = SigPending
  /\ fnIn = NoFnIn
  /\ fnOut = FnPending
  /\ InitProcess

Init == InitCommon /\ variant = "lambda"

\* the steps of one Lambda invocation after the request arrived
LambdaStep(i) ==
  \/ L_Verify(i)
  \/ \E ok \in BOOLEAN : L_GetBotId(i, ok)
  \/ \E fetchOk \in BOOLEAN, authOk \in BOOLEAN : L_History(i, fetchOk, authOk)
  \/ L_RaceHandler(i)
  \/ L_RaceTimeout(i)
  \/ \E ok \in BOOLEAN : L_Apology(i, ok)

\* The Lambda deployment under every request shape, with process restarts
Next ==
  \/ \E i \in Invs, r \in Requests : L_Receive(i, r)
  \/ \E i \in Invs : LambdaStep(i)
  \/ \E i \in Invs : MentionStep(i)
  \/ \E i \in Invs : DirectMessageStep(i)
  \/ \E i \in Invs : GreetingStep(i)
  \/ ColdStart

Spec == Init /\ [][Next]_vars

\* The Lambda deployment receiving deliveries of the mention event and, in
\* between, long runs of deliveries with identifiers it has not seen
CacheRequests ==
  { EventCallback(1, EvMention, TRUE), EventCallback(EmptyId, EvOther, TRUE) }

NextCache ==
  \/ \E i \in Invs, r \in CacheRequests : L_Receive(i, r)
  \/ \E i \in Invs : LambdaStep(i)
  \/ \E i \in Invs : MentionStep(i)
  \/ \E k \in BurstSizes : L_Burst(k)

SpecCache == Init /\ [][NextCache]_vars


(* ---------------- the Lambda deployment with a clock ------------------ *)
TickMs == 40 * 1000

ClockRequests ==
  { EventCallback(1, EvMention, TRUE),
    WithHeaders(EventCallback(1, EvMention, TRUE), << <<"X-Slack-Retry-Num", "1">> >>),
    EventCallback(3, EvStarted, TRUE) }

\* a Lambda execution environment runs one invocation at a time
C_Receive(i, r) ==
  /\ \A j \in Invs : pc[j] \in {"idle", "done"}
  /\ L_Receive(i, r)

\* the timer armed by createTimeout(timeoutMs) fires timeoutMs after the race began (11-15)
TimerDue(i) == now >= raceAt[i] + timeoutMs(req[i])

C_RaceTimeout(i) ==
  /\ TimerDue(i)
  /\ L_RaceTimeout(i)

\* Time passes while an invocation waits for the network or for its race; the
\* HMAC of the verification, a due timer and the continuation of a settled
\* race run before the clock moves.
Tick ==
  /\ variant = "lambda"
  /\ now + TickMs <= MaxTicks * TickMs
  /\ \E i \in Invs : pc[i] \notin {"idle", "verify", "done"}
  /\ \A i \in Invs : pc[i] = "race" => (~Settled(hpc[i]) /\ ~TimerDue(i))
  /\ now' = now + TickMs
  /\ UNCHANGED << variant, bursts, fresh, coldStarts, sigIn, sigOut, fnIn, fnOut, raceAt,
                  pc, resp, calls, hpc, cacheVars, slackVars, arrivalVars >>

ClockStep(i) ==
  \/ L_Verify(i)
  \/ \E ok \in BOOLEAN : L_GetBotId(i, ok)
  \/ \E fetchOk \in BOOLEAN, authOk \in BOOLEAN : L_History(i, fetchOk, authOk)
  \/ L_RaceHandler(i)
  \/ C_RaceTimeout(i)
  \/ \E ok \in BOOLEAN : L_Apology(i, ok)

NextClock ==
  \/ \E i \in Invs, r \in ClockRequests : C_Receive(i, r)
  \/ \E i \in Invs : ClockStep(i)
  \/ \E i \in Invs : MentionStep(i)
  \/ \E i \in Invs : GreetingStep(i)
  \/ Tick

SpecClock == Init /\ [][NextClock]_vars

(* ------------------ the deadline on its own (lambda.ts) --------------- *)
\* header names as a client may spell them, and the values Slack gives them;
\* '' is a header sent without a value
DeadlineNames ==
  { "x-slack-retry-num", "X-Slack-Retry-Num", "X-SLACK-RETRY-NUM",
    "x-slack-retry-reason", "X-Slack-Retry-Reason", "content-type" }
DeadlineValues == { "", "1", "3", "http_timeout" }

\* two spellings of one header name
SameHeader(a, b) == ToLowerCase(a) = ToLowerCase(b)

\* event.headers: no entry, one or two; API Gateway hands over a header once
DeadlineHeaders ==
  {<< >>}
    \cup { << <<n, v>> >> : n \in DeadlineNames, v \in DeadlineValues }
    \cup { << <<n, v>>, <<m, w>> >> :
             n \in DeadlineNames, v \in DeadlineValues,
             m \in { x \in DeadlineNames : x # "content-type" }, w \in {"1", "http_timeout"} }

DeadlineInputs ==
  { [fn |-> "timeoutMs", headers |-> hs] :
      hs \in { h \in DeadlineHeaders : Len(h) = 2 => ~SameHeader(h[1][1], h[2][1]) } }

InitDeadline ==
  /\ variant = "deadline"
  /\ sigIn = NoSigIn
  /\ sigOut = SigPending
  /\ fnIn \in DeadlineInputs
  /\ fnOut = FnPending
  /\ InitProcess

\* isRetryRequest(event.headers) and the choice of timeoutMs (148, 173)
Deadline_Return ==
  /\ variant = "deadline"
  /\ fnOut = FnPending
  /\ fnOut' = FnReturned(timeoutMs(WithHeaders(NoRequest, fnIn.headers)))
  /\ UNCHANGED fnFrame

NextDeadline == Deadline_Return

SpecDeadline == InitDeadline /\ [][NextDeadline]_vars

(* ---------------- the router under every event shape ----------------- *)
\* Validly signed deliveries, each with its own event_id: the three handled
\* shapes, mentions and direct messages written by a bot, messages that miss
\* one condition of the direct-message branch, a direct message outside a
\* thread, and an event of another type
RouteCatalogue ==
  { <<1, EvMention>>, <<2, EvDM>>, <<3, EvStarted>>,
    <<4, Event("app_mention", FALSE, "channel", BotId, FALSE, TRUE, 10, 0)>>,
    <<5, Event("app_mention", FALSE, "channel", "", TRUE, TRUE, 10, 0)>>,
    <<6, Event("message", TRUE, "im", "", FALSE, TRUE, 21, 20)>>,
    <<7, Event("message", FALSE, "channel", "", FALSE, TRUE, 21, 20)>>,
    <<8, Event("message", FALSE, "im", BotId, FALSE, TRUE, 21, 20)>>,
    <<9, Event("message", FALSE, "im", "", TRUE, TRUE, 21, 20)>>,
    <<10, Event("message", FALSE, "im", "", FALSE, TRUE, 20, 0)>>,
    <<11, EvOther>> }

RouteRequests == { EventCallback(c[1], c[2], TRUE) : c \in RouteCatalogue }

NextRoute ==
  \/ \E i \in Invs, r \in RouteRequests : C_Receive(i, r)
  \/ \E i \in Invs : LambdaStep(i)
  \/ \E i \in Invs : MentionStep(i)
  \/ \E i \in Invs : DirectMessageStep(i)
  \/ \E i \in Invs : GreetingStep(i)

SpecRoute == Init /\ [][NextRoute]_vars

(* -------------- isValidSlackRequest on its own (part_002) ------------- *)
\* Timestamp headers around both ends of the five-minute window of the clock
\* readings in SigClocks, next to an absent, an empty and a non-numeric one
SigTimestamps ==
  {NoHeader, EmptyHeader, NanHeader} \cup { NumHeader(n) : n \in {300, 301, 601, 901, 902} }

SigClocks == {601 * 1000, 601 * 1000 + 500}

\* For a timestamp t: the signature Slack computes, one under another key, one
\* over another timestamp, and an absent, an empty and a truncated header
SigSignatures(t) ==
  { Signature(signingSecret, t, RawBody), Signature("forged", t, RawBody),
    Signature(signingSecret, NumHeader(601), "otherBody"),
    NoSignature, EmptySignature, ShortSignature }

SigInputs ==
  { SigIn(t, sg, n) : t \in SigTimestamps, n \in SigClocks,
                      sg \in UNION { SigSignatures(u) : u \in SigTimestamps } }

InitSig ==
  /\ variant = "verifier"
  /\ fnIn = NoFnIn
  /\ fnOut = FnPending
  /\ sigIn \in SigInputs
  /\ sigOut = SigPending
  /\ InitProcess

\* one call of isValidSlackRequest returns
Sig_Return ==
  /\ variant = "verifier"
  /\ sigOut = SigPending
  /\ sigOut' = SigReturned(isValidSlackRequest(sigIn.timestamp, sigIn.slackSignature,
                                               RawBody, sigIn.nowMs))
  /\ UNCHANGED << variant, sigIn, processedEvents, processedEventsQueue, pc, req, resp,
                  calls, hpc, thread, statusTs, admitLog, lastCall, seenAt, hadReply,
                  arrivals, order, epoch, bursts, fresh, coldStarts, now, startAt, raceAt,
                  fnIn, fnOut >>

NextSig == Sig_Return

SpecSig == InitSig /\ [][NextSig]_vars

(* ------------- checkIfAlreadyResponded on its own (part_002) ---------- *)
\* The events checked: the root of a thread, and a message inside thread 10
HistEvents ==
  { Event("app_mention", FALSE, "channel", "", FALSE, TRUE, 10, 0),
    Event("app_mention", FALSE, "channel", "", FALSE, TRUE, 11, 0),
    Event("message", FALSE, "im", "", FALSE, TRUE, 11, 10) }

\* authors: a human, this bot, another bot
HistAuthors == {"", BotId, "B_OTHER"}

\* What Slack holds: the root of the event's thread (conversations.replies
\* returns it first) followed by up to two messages, of this thread or of
\* thread 20, stamped like the event, one later or two later
HistMessages(ev) ==
  { Message(b, th, t) : b \in HistAuthors, th \in {ThreadTsOf(ev), 20},
                        t \in {ev.ts, ev.ts + 1, ev.ts + 2} }

HistConversations(ev) ==
  LET root == { << Message(b, ThreadTsOf(ev), ThreadTsOf(ev)) >> : b \in {"", BotId} }
      tails == {<< >>} \cup { << m >> : m \in HistMessages(ev) }
                 \cup { << m, n >> : m \in HistMessages(ev), n \in HistMessages(ev) }
  IN { r \o t : r \in root, t \in tails }

HistIn(ev, conv, fetchOk, authOk) ==
  [fn |-> "checkIfAlreadyResponded", ev |-> ev, conv |-> conv,
   fetchOk |-> fetchOk, authOk |-> authOk]

HistInputs ==
  UNION { { HistIn(ev, conv, f, a) : conv \in HistConversations(ev),
                                     f \in BOOLEAN, a \in BOOLEAN } : ev \in HistEvents }

InitHist ==
  /\ variant = "history"
  /\ sigIn = NoSigIn
  /\ sigOut = SigPending
  /\ fnIn \in HistInputs
  /\ fnOut = FnPending
  /\ InitProcess

\* one call of checkIfAlreadyResponded returns
Hist_Return ==
  /\ variant = "history"
  /\ fnOut = FnPending
  /\ fnOut' = FnReturned(checkIfAlreadyResponded(fnIn.ev, fnIn.conv, fnIn.fetchOk, fnIn.authOk))
  /\ UNCHANGED fnFrame

NextHist == Hist_Return

SpecHist == InitHist /\ [][NextHist]_vars

(* ================ Vercel handler (src/unnamed/part_000) =============== *)
\* POST 35-51: request.text(), JSON.parse and the cache check; to = "threw"
\* is an exception leaving POST
VercelEntry(r, set, queue) ==
  LET noDedup == [ret |-> FALSE, set |-> set, queue |-> queue]
      seen == isEventProcessed(set, queue, r.event_id)
  IN IF r.body \in {"unparseable", "null"}
       THEN [to |-> "threw", resp |-> NoResp, dedup |-> FALSE, cache |-> noDedup]
     ELSE IF r.body = "object" /\ r.type = "url_verification"
       THEN [to |-> "done",
             resp |-> Resp(200, IF r.challenge = NoChallenge THEN "" ELSE r.challenge,
                           NoChallenge),
             dedup |-> FALSE, cache |-> noDedup]
     ELSE IF r.body = "object" /\ r.type = "event_callback" /\ r.hasEvent
             /\ Truthy(r.event_id)
       THEN IF seen.ret
              THEN [to |-> "done", resp |-> Resp(200, "Event already processed", NoChallenge),
                    dedup |-> TRUE, cache |-> seen]
              ELSE [to |-> "verify", resp |-> NoResp, dedup |-> TRUE, cache |-> seen]
     ELSE [to |-> "verify", resp |-> NoResp, dedup |-> FALSE, cache |-> noDedup]

\* the request type POST passes to verifyRequest (payload.type)
RequestType(r) == IF r.body = "object" THEN r.type ELSE "undefined"

V_Receive(i, r) ==
  /\ variant = "vercel"
  /\ pc[i] = "idle"
  /\ \A j \in Invs : j < i => pc[j] # "idle"
  /\ LET e == VercelEntry(r, processedEvents, processedEventsQueue)
     IN /\ processedEvents' = e.cache.set
        /\ processedEventsQueue' = e.cache.queue
        /\ admitLog' = IF e.dedup THEN LogAfter(admitLog, r.event_id, e.cache.ret)
                                  ELSE admitLog
        /\ lastCall' = IF e.dedup
                         THEN CallRecord(admitLog, r.event_id, e.cache.ret, lastCall.n + 1)
                         ELSE lastCall
        /\ pc' = [pc EXCEPT ![i] = e.to]
        /\ resp' = [resp EXCEPT ![i] = e.resp]
        /\ calls' = [calls EXCEPT ![i] = IF e.dedup THEN {"isEventProcessed"} ELSE {}]
  /\ req' = [req EXCEPT ![i] = r]
  /\ seenAt' = [seenAt EXCEPT ![i] = Len(admitLog)]
  /\ hadReply' = [hadReply EXCEPT ![i] = BotRepliedLater(r, thread)]
  /\ startAt' = [startAt EXCEPT ![i] = now]
  /\ arrivals' = arrivals + 1
  /\ order' = [order EXCEPT ![i] = arrivals + 1]
  /\ epoch' = [epoch EXCEPT ![i] = coldStarts]
  /\ UNCHANGED << hpc, envVars, slackVars >>

\* POST 59: await verifyRequest(...), whose result is not read
V_Verify(i) ==
  /\ variant = "vercel"
  /\ pc[i] = "verify"
  /\ calls' = [calls EXCEPT ![i] = @ \cup {"verifyRequest"}]
  /\ pc' = [pc EXCEPT ![i] = "getBotId"]
  /\ UNCHANGED << resp, hpc, cacheVars, envVars, slackVars, arrivalVars >>

\* waitUntil(handler(...)) and the response that follows (82-114)
V_Start(i, soFar, name, h) ==
  /\ Finish(i, Resp(200, "Success!", NoChallenge))
  /\ calls' = [calls EXCEPT ![i] = soFar \cup {name}]
  /\ hpc' = [hpc EXCEPT ![i] = h]

\* POST 61-114 up to the history check; a TypeError on event.type (no event)
\* or a rejection of getBotId is caught at 115-118
V_GetBotId(i, ok) ==
  /\ variant = "vercel"
  /\ pc[i] = "getBotId"
  /\ LET ev == req[i].ev
         soFar == calls[i] \cup {"getBotId"}
     IN IF ~ok \/ req[i].body # "object" \/ ~req[i].hasEvent
          THEN /\ Finish(i, Resp(500, "Error generating response", NoChallenge))
               /\ calls' = [calls EXCEPT ![i] = soFar]
               /\ UNCHANGED hpc
        ELSE IF (ev.type = "app_mention" \/ isDirectMessage(ev, BotUserId)) /\ ev.hasChannelTs
          THEN /\ pc' = [pc EXCEPT ![i] = "history"]
               /\ calls' = [calls EXCEPT ![i] = soFar]
               /\ UNCHANGED << resp, hpc >>
        ELSE IF ev.type = "app_mention"
          THEN V_Start(i, soFar, "handleNewAppMention", MentionStart(ev, statusTs))
        ELSE IF ev.type = "assistant_thread_started"
          THEN V_Start(i, soFar, "assistantThreadMessage", Handler("g_post", 0))
        ELSE IF isDirectMessage(ev, BotUserId)
          THEN V_Start(i, soFar, "handleNewAssistantMessage", DMStart(ev))
        ELSE /\ Finish(i, Resp(200, "Success!", NoChallenge))
             /\ calls' = [calls EXCEPT ![i] = soFar]
             /\ UNCHANGED hpc
  /\ UNCHANGED << cacheVars, envVars, slackVars, arrivalVars >>

\* POST 68-79 and 99-109: await checkIfAlreadyResponded(event), then waitUntil
V_History(i, fetchOk, authOk) ==
  /\ variant = "vercel"
  /\ pc[i] = "history"
  /\ LET ev == req[i].ev
         soFar == calls[i] \cup HistoryCalls(ev, thread, fetchOk, authOk)
     IN IF checkIfAlreadyResponded(ev, thread, fetchOk, authOk)
          THEN /\ Finish(i, Resp(200, IF ev.type = "app_mention"
                                        THEN "Event already responded"
                                        ELSE "Message already responded", NoChallenge))
               /\ calls' = [calls EXCEPT ![i] = soFar]
               /\ UNCHANGED hpc
        ELSE IF ev.type = "app_mention"
          THEN V_Start(i, soFar, "handleNewAppMention", MentionStart(ev, statusTs))
        ELSE V_Start(i, soFar, "handleNewAssistantMessage", DMStart(ev))
  /\ UNCHANGED << cacheVars, envVars, slackVars, arrivalVars >>

VercelStep(i) ==
  \/ V_Verify(i)
  \/ \E ok \in BOOLEAN : V_GetBotId(i, ok)
  \/ \E fetchOk \in BOOLEAN, authOk \in BOOLEAN : V_History(i, fetchOk, authOk)

InitVercel == InitCommon /\ variant = "vercel"

NextVercel ==
  \/ \E i \in Invs, r \in Requests : V_Receive(i, r)
  \/ \E i \in Invs : VercelStep(i)
  \/ \E i \in Invs : MentionStep(i)
  \/ \E i \in Invs : DirectMessageStep(i)
  \/ \E i \in Invs : GreetingStep(i)

SpecVercel == InitVercel /\ [][NextVercel]_vars

(* ============== the three handlers on the same request ================ *)
\* What a handler decides for one request: the HTTP status it returns (0 when
\* an exception leaves it), the response handler it invokes and the duplicate
\* checks it makes
Decision(st, h, dd) == [status |-> st, handler |-> h, dedup |-> dd]

CacheCheck(made) == IF made THEN {"isEventProcessed"} ELSE {}

\* src/lambda.ts handler (72-249) from the request to its response
LambdaDecision(r, set, queue, conv, botOk, fetchOk, authOk) ==
  LET e == LambdaEntry(r, set, queue)
      dd == CacheCheck(e.dedup)
  IN IF e.to = "done" THEN Decision(e.resp.status, {}, dd)
     ELSE IF verifyRequest(r.type, r.tsHdr, r.sigHdr, RawBody, HandlerNow)
       THEN Decision(200, {}, dd)
     ELSE IF ~botOk THEN Decision(InnerCatch.status, {}, dd)
     ELSE IF isMessageEvent(r.ev) /\ checkIfAlreadyResponded(r.ev, conv, fetchOk, authOk)
       THEN Decision(200, {}, dd \cup {"checkIfAlreadyResponded"})
     ELSE Decision(200, LambdaDispatch(r.ev, statusTs).call,
                   dd \cup (IF isMessageEvent(r.ev) THEN {"checkIfAlreadyResponded"} ELSE {}))

\* src/unnamed/part_000 POST (35-119) from the request to its response
VercelDecision(r, set, queue, conv, botOk, fetchOk, authOk) ==
  LET e == VercelEntry(r, set, queue)
      dd == CacheCheck(e.dedup)
      checked == (r.ev.type = "app_mention" \/ isDirectMessage(r.ev, BotUserId))
                   /\ r.ev.hasChannelTs
  IN IF e.to = "threw" THEN Decision(0, {}, dd)
     ELSE IF e.to = "done" THEN Decision(e.resp.status, {}, dd)
     ELSE IF ~botOk \/ r.body # "object" \/ ~r.hasEvent THEN Decision(500, {}, dd)
     ELSE IF checked /\ checkIfAlreadyResponded(r.ev, conv, fetchOk, authOk)
       THEN Decision(200, {}, dd \cup {"checkIfAlreadyResponded"})
     ELSE Decision(200, LambdaDispatch(r.ev, statusTs).call,
                   dd \cup (IF checked THEN {"checkIfAlreadyResponded"} ELSE {}))

\* Object.keys of the Headers object built at part_001 117 is empty, so
\* getHeader of isValidSlackRequest (part_002 18-22) finds no header
HeadersObjectLookup(h) == NoHeader

\* src/unnamed/part_001 handler (64-238) from the request to its response:
\* the statements of 76-107 are those of lambda.ts 83-111; no history check
EarlierDecision(r, set, queue, conv, botOk, fetchOk, authOk) ==
  LET e == LambdaEntry(r, set, queue)
      dd == CacheCheck(e.dedup)
  IN IF e.to = "done" THEN Decision(e.resp.status, {}, dd)
     ELSE IF verifyRequest(r.type, HeadersObjectLookup(r.tsHdr), NoSignature,
                           RawBody, HandlerNow)
       THEN Decision(200, {}, dd)
     ELSE IF ~botOk THEN Decision(200, {}, dd)
     ELSE Decision(200, LambdaDispatch(r.ev, statusTs).call, dd)

\* the cache before the request: empty, or holding the request's event_id
VariantCaches(r) ==
  { [set |-> {}, queue |-> << >>] }
    \cup (IF Truthy(r.event_id)
           THEN { [set |-> {r.event_id}, queue |-> << r.event_id >>] } ELSE {})

\* the conversation as Slack holds it, before and after the bot replied in
\* thread 10 and in thread 20
VariantConversations ==
  { InitConversation, PostMessage(InitConversation, 10),
    PostMessage(InitConversation, 20) }

VariantInputs ==
  UNION { { [fn |-> "handler", r |-> r, cache |-> c, conv |-> conv,
             botOk |-> b, fetchOk |-> f, authOk |-> a] :
              c \in VariantCaches(r), conv \in VariantConversations,
              b \in BOOLEAN, f \in BOOLEAN, a \in BOOLEAN } :
          r \in Requests \cup RouteRequests }

InitVariants ==
  /\ variant = "all"
  /\ sigIn = NoSigIn
  /\ sigOut = SigPending
  /\ fnIn \in VariantInputs
  /\ fnOut = FnPending
  /\ InitProcess

\* the three handlers answer the same request under the same behaviour of Slack
Variants_Return ==
  /\ variant = "all"
  /\ fnOut = FnPending
  /\ fnOut' =
       [returned |-> TRUE,
        lambda |-> LambdaDecision(fnIn.r, fnIn.cache.set, fnIn.cache.queue, fnIn.conv,
                                  fnIn.botOk, fnIn.fetchOk, fnIn.authOk),
        vercel |-> VercelDecision(fnIn.r, fnIn.cache.set, fnIn.cache.queue, fnIn.conv,
                                  fnIn.botOk, fnIn.fetchOk, fnIn.authOk),
        earlier |-> EarlierDecision(fnIn.r, fnIn.cache.set, fnIn.cache.queue, fnIn.conv,
                                    fnIn.botOk, fnIn.fetchOk, fnIn.authOk)]
  /\ UNCHANGED fnFrame

NextVariants == Variants_Return

SpecVariants == InitVariants /\ [][NextVariants]_vars

(* ============ getThread and the mention handler's reply =============== *)
\* A turn of the conversation handed to generateResponse
Turn(role, content) == [role |-> role, content |-> content]

\* a message of conversations.replies as getThread reads it: bot_id and text
ThreadMessage(b, tx) == [bot_id |-> b, text |-> tx]

\* content.replace(`<@${botUserId}> `, "") on the texts of the model
StripMention(text) ==
  CASE text = "<@U_BOT> hi" -> "hi"
    [] OTHER -> text

\* the texts of the two catch branches (182-193), in English
MissingScopeText == "no permission to read the history: ask for the groups:history scope"
ErrorText(message) ==
  "an error occurred: " \o (IF message = "" THEN "unknown error" ELSE message)

\* what conversations.replies did: it returned messages, returned none
\* (messages undefined), or rejected with error.data.error and error.message
Fetched(ms) == [kind |-> "ok", messages |-> ms, message |-> ""]
FetchedNothing == [kind |-> "undefined", messages |-> << >>, message |-> ""]
FetchRejected(k, message) == [kind |-> k, messages |-> << >>, message |-> message]

Returns(turns) == [threw |-> FALSE, turns |-> turns]
Throws == [threw |-> TRUE, turns |-> << >>]

\* getThread rethrowing what conversations.replies rejected with
getThread_Rethrows(fetch) ==
  IF fetch.kind = "ok"
    THEN LET kept == SelectSeq(fetch.messages, LAMBDA m : m.text # "")
         IN Returns([k \in 1..Len(kept) |->
                       IF kept[k].bot_id # ""
                         THEN Turn("assistant", kept[k].text)
                         ELSE Turn("user", StripMention(kept[k].text))])
  ELSE Throws

\* getThread (part_002 140-194)
getThread(fetch) ==
  IF fetch.kind = "ok"
    THEN LET kept == SelectSeq(fetch.messages, LAMBDA m : m.text # "")
         IN Returns([k \in 1..Len(kept) |->
                       IF kept[k].bot_id # ""
                         THEN Turn("assistant", kept[k].text)
                         ELSE Turn("user", StripMention(kept[k].text))])
  ELSE IF fetch.kind = "undefined"
    THEN Returns(<< Turn("user", ErrorText("No messages found in thread")) >>)
  ELSE IF fetch.kind = "missing_scope"
    THEN Returns(<< Turn("user", MissingScopeText) >>)
  ELSE Returns(<< Turn("user", ErrorText(fetch.message)) >>)

\* what the try of handleNewAppMention (282-303) did: whether getThread was
\* called, the turns generateResponse was called with (generated FALSE when it
\* was not called), and the text of the last updateMessage
Reply(t, g, turns, final) ==
  [threadRead |-> t, generated |-> g, turns |-> turns, final |-> final]

\* handleNewAppMention 282-303 for an event with text "hi", inside a thread or
\* not, given what conversations.replies did and whether generateResponse
\* resolved
MentionReply(inThread, fetch, genOk) ==
  LET thread_ == getThread(fetch)
      messages == IF inThread THEN thread_.turns ELSE << Turn("user", "hi") >>
  IN IF inThread /\ thread_.threw
       THEN Reply(TRUE, FALSE, << >>, "error text")
     ELSE IF genOk THEN Reply(inThread, TRUE, messages, "result")
     ELSE Reply(inThread, TRUE, messages, "error text")

ThreadTexts == { "", "hi", "<@U_BOT> hi" }
ThreadMessages == { ThreadMessage(b, tx) : b \in {"", BotId}, tx \in ThreadTexts }

ThreadFetches ==
  { Fetched(<< >>) }
    \cup { Fetched(<< m >>) : m \in ThreadMessages }
    \cup { Fetched(<< m, n >>) : m \in ThreadMessages, n \in ThreadMessages }
    \cup { FetchedNothing, FetchRejected("missing_scope", "An API error occurred: missing_scope"),
           FetchRejected("ratelimited", "A rate-limit has been reached"),
           FetchRejected("request_failed", "") }

ThreadInputs ==
  { [fn |-> "handleNewAppMention", inThread |-> t, fetch |-> f, genOk |-> g] :
      t \in BOOLEAN, f \in ThreadFetches, g \in BOOLEAN }

InitThread ==
  /\ variant = "thread"
  /\ sigIn = NoSigIn
  /\ sigOut = SigPending
  /\ fnIn \in ThreadInputs
  /\ fnOut = FnPending
  /\ InitProcess

\* the try of handleNewAppMention ran to its last updateMessage
Thread_Return ==
  /\ variant = "thread"
  /\ fnOut = FnPending
  /\ fnOut' = [returned |-> TRUE,
               thread |-> getThread(fnIn.fetch),
               reply |-> MentionReply(fnIn.inThread, fnIn.fetch, fnIn.genOk)]
  /\ UNCHANGED fnFrame

NextThread == Thread_Return

SpecThread == InitThread /\ [][NextThread]_vars

(* ------------------ two mentions in the same thread ------------------- *)
\* A second mention, written in the thread of EvMention after it
EvMentionAgain == Event("app_mention", FALSE, "channel", "", FALSE, TRUE, 25, 10)

StatusRequests ==
  { EventCallback(1, EvMention, TRUE), EventCallback(4, EvMentionAgain, TRUE) }

\* The Lambda deployment, one invocation at a time, receiving the two mentions
NextStatus ==
  \/ \E i \in Invs, r \in StatusRequests : C_Receive(i, r)
  \/ \E i \in Invs : LambdaStep(i)
  \/ \E i \in Invs : MentionStep(i)

SpecStatus == Init /\ [][NextStatus]_vars

(* ========== throttledUpdate: the progress callback of generateResponse ========== *)
\* const UPDATE_INTERVAL = 2000 (24)
UPDATE_INTERVAL == 2000

\* lastUpdateTime starts as {} (23): reading a key that was never written
\* gives undefined
Undefined == -1
Falsy(v) == v = Undefined \/ v = 0

\* the wrappers with each generateResponse call given a key of its own
Wrappers_OwnKeys ==
  { [id |-> 1, updateStatus |-> TRUE, operationId |-> "call 1"],
    [id |-> 2, updateStatus |-> TRUE, operationId |-> "call 2"],
    [id |-> 3, updateStatus |-> FALSE, operationId |-> "call 3"] }

\* The wrappers one process builds, one per call of generateResponse (48).
\* Each closes over the updateStatus it was given, which is optional (28), and
\* over operationId, which is never passed and so is 'default' (29).
Wrappers ==
  { [id |-> 1, updateStatus |-> TRUE, operationId |-> "default"],
    [id |-> 2, updateStatus |-> TRUE, operationId |-> "default"],
    [id |-> 3, updateStatus |-> FALSE, operationId |-> "default"] }

\* what reaches updateStatus: which wrapper forwarded which call, and when
Forwarded(w, n, t) == [wrapper |-> w.id, call |-> n, at |-> t]

\* the same without line 38: the time of a forwarded call is not kept
throttledUpdate_NeverRecords(w, last, t, n) ==
  IF ~Falsy(last) /\ t - last < UPDATE_INTERVAL
    THEN [lastUpdateTime |-> last, forwarded |-> << >>]
    ELSE [lastUpdateTime |-> last,
          forwarded |-> IF w.updateStatus THEN << Forwarded(w, n, t) >> ELSE << >>]

\* The function throttledUpdate returns (31-40), called as call number n of
\* the process at Date.now() = t, with last = lastUpdateTime[operationId]:
\* the new value of that entry and what is forwarded.
throttledUpdate(w, last, t, n) ==
  IF ~Falsy(last) /\ t - last < UPDATE_INTERVAL
    THEN [lastUpdateTime |-> last, forwarded |-> << >>]
    ELSE [lastUpdateTime |-> t,
          forwarded |-> IF w.updateStatus THEN << Forwarded(w, n, t) >> ELSE << >>]

\* Date.now() counts milliseconds since 1970 and is never zero: the variable
\* now counts from the first invocation of the process, which happened at
\* ThrottleStart
ThrottleStart == 1000
DateNow == ThrottleStart + now
\* how far Date.now() moves between two calls; the system clock may be set back
ThrottleGaps == { -1000, 1000, 1999 }

throttleFrame ==
  << variant, sigIn, sigOut, processedEvents, processedEventsQueue, pc, req, resp,
     calls, hpc, thread, statusTs, admitLog, lastCall, seenAt, hadReply, arrivals,
     order, epoch, bursts, fresh, coldStarts, startAt, raceAt >>

\* fnIn holds lastUpdateTime, the number of calls made and the number of
\* times the clock was seen to move; fnOut is the list of calls that reached
\* updateStatus
InitThrottle ==
  /\ variant = "throttle"
  /\ sigIn = NoSigIn
  /\ sigOut = SigPending
  /\ fnIn = [lastUpdateTime |-> [k \in {"default"} |-> Undefined], calls |-> 0,
             moves |-> 0]
  /\ fnOut = << >>
  /\ InitProcess

\* one call of a wrapper: throttledUpdateStatus(message) (51, 86, 106)
T_Call(w) ==
  /\ variant = "throttle"
  /\ fnIn.calls < MaxCalls
  /\ LET r == throttledUpdate(w, fnIn.lastUpdateTime[w.operationId], DateNow,
                              fnIn.calls + 1) IN
       /\ fnIn' = [fnIn EXCEPT !.calls = @ + 1,
                               !.lastUpdateTime[w.operationId] = r.lastUpdateTime]
       /\ fnOut' = fnOut \o r.forwarded
  /\ UNCHANGED << now, throttleFrame >>

\* time passes between two calls
T_Advance(d) ==
  /\ variant = "throttle"
  /\ fnIn.moves < MaxTicks
  /\ DateNow + d >= 1
  /\ now' = now + d
  /\ fnIn' = [fnIn EXCEPT !.moves = @ + 1]
  /\ UNCHANGED << fnOut, throttleFrame >>

NextThrottle ==
  \/ \E w \in Wrappers : T_Call(w)
  \/ \E d \in ThrottleGaps : T_Advance(d)

SpecThrottle == InitThrottle /\ [][NextThrottle]_vars

(* ====== the throttle shared by the generateResponse calls of a process ====== *)
\* the keys of lastUpdateTime the wrappers of the process use
OperationIds == { w.operationId : w \in Wrappers }

\* await updateMessage(result), or the error text (298, 302): handleNewAppMention
\* calls the function updateStatusUtil gave it, not the wrapper, so
\* lastUpdateTime is neither read nor written
FinalWrite(w, t) == << [wrapper |-> w.id, at |-> t] >>

\* fnIn holds lastUpdateTime, the number of calls made, the number of times
\* the clock was seen to move, the generateResponse calls that have started
\* and those whose handler has written its final text, and the wrapper called
\* last; fnOut holds what reached updateStatus through a wrapper and what
\* handleNewAppMention wrote directly
InitShared ==
  /\ variant = "shared throttle"
  /\ sigIn = NoSigIn
  /\ sigOut = SigPending
  /\ fnIn = [lastUpdateTime |-> [k \in OperationIds |-> Undefined], calls |-> 0,
             moves |-> 0, started |-> {}, finished |-> {}, caller |-> 0]
  /\ fnOut = [forwarded |-> << >>, finals |-> << >>]
  /\ InitProcess

\* one call of the wrapper of a generateResponse call that is running: the
\* first is throttledUpdateStatus("考え中...") (51), the later ones come from
\* the tools (86, 106)
S_Call(w) ==
  /\ variant = "shared throttle"
  /\ fnIn.calls < MaxCalls
  /\ w.id \notin fnIn.finished
  /\ LET r == throttledUpdate(w, fnIn.lastUpdateTime[w.operationId], DateNow,
                              fnIn.calls + 1) IN
       /\ fnIn' = [fnIn EXCEPT !.calls = @ + 1,
                               !.lastUpdateTime[w.operationId] = r.lastUpdateTime,
                               !.started = @ \cup {w.id},
                               !.caller = w.id]
       /\ fnOut' = [fnOut EXCEPT !.forwarded = @ \o r.forwarded]
  /\ UNCHANGED << now, throttleFrame >>

\* generateResponse returned, having made its first call at least, and
\* handleNewAppMention writes the reply (298) or the error text (302)
S_Final(w) ==
  /\ variant = "shared throttle"
  /\ w.updateStatus
  /\ w.id \in fnIn.started
  /\ w.id \notin fnIn.finished
  /\ fnIn' = [fnIn EXCEPT !.finished = @ \cup {w.id}]
  /\ fnOut' = [fnOut EXCEPT !.finals = @ \o FinalWrite(w, DateNow)]
  /\ UNCHANGED << now, throttleFrame >>

\* how far Date.now() moves between two calls of this run
SharedGaps == { 1000, 1999 }

\* time passes between two calls
S_Advance(d) ==
  /\ variant = "shared throttle"
  /\ fnIn.moves < MaxTicks
  /\ DateNow + d >= 1
  /\ now' = now + d
  /\ fnIn' = [fnIn EXCEPT !.moves = @ + 1]
  /\ UNCHANGED << fnOut, throttleFrame >>

\* the generateResponse calls made by handleNewAppMention, which always
\* passes its updateMessage (289, 292-295)
MentionWrappers == { w \in Wrappers : w.updateStatus }

NextShared ==
  \/ \E w \in MentionWrappers : S_Call(w)
  \/ \E w \in MentionWrappers : S_Final(w)
  \/ \E d \in SharedGaps : S_Advance(d)

SpecShared == InitShared /\ [][NextShared]_vars

(* ============================== claims ================================ *)
HandlerNames == {"handleNewAppMention", "assistantThreadMessage", "handleNewAssistantMessage"}
HandlerInvoked(i) == calls[i] \cap HandlerNames # {}
Returned(i) == pc[i] = "done"

\* the request of invocation i passes signature verification
SignedOK(i) ==
  ~verifyRequest(req[i].type, req[i].tsHdr, req[i].sigHdr, RawBody, HandlerNow)

HandledShape(ev) ==
  \/ ev.type \in {"app_mention", "assistant_thread_started"}
  \/ isDirectMessage(ev, BotUserId)

\* invocation i is a validly signed event_callback delivery of a handled shape with an event_id
Delivery(i) ==
  /\ req[i].body = "object"
  /\ req[i].type = "event_callback"
  /\ req[i].hasEvent
  /\ Truthy(req[i].event_id)
  /\ HandledShape(req[i].ev)
  /\ SignedOK(i)

ShortCircuited(i) == resp[i] = Resp(200, "Event already processed", NoChallenge)

\* i and j are deliveries of one event_id to one process, i the earlier, both answered
SameEventPair(i, j) ==
  /\ i # j
  /\ Delivery(i) /\ Delivery(j)
  /\ req[i].event_id = req[j].event_id
  /\ epoch[i] = epoch[j]
  /\ order[i] < order[j]
  /\ Returned(i) /\ Returned(j)

\* identifiers recorded after i arrived and before j arrived, i's own excluded
RecordedBetween(i, j) == seenAt[j] - seenAt[i] - 1

\* C1 (as claimed): of two validly signed deliveries of a handled event shape
\* with the same event_id in one process, the first is routed to a handler and
\* the second is answered 200 'Event already processed' without a handler.
C1_Original ==
  \A i \in Invs, j \in Invs :
    (SameEventPair(i, j) /\ ~ShortCircuited(i)) =>
      /\ HandlerInvoked(i)
      /\ ShortCircuited(j)
      /\ ~HandlerInvoked(j)

\* C1 (amended): the second delivery is short-circuited without a handler
\* provided fewer than MAX_CACHE_SIZE other identifiers were recorded between
\* the two arrivals; the first is routed to a handler unless its identity
\* lookup failed or the thread-history check reported it answered.
C1_Amended ==
  \A i \in Invs, j \in Invs :
    (SameEventPair(i, j) /\ ~ShortCircuited(i)) =>
      /\ RecordedBetween(i, j) < MAX_CACHE_SIZE =>
           (ShortCircuited(j) /\ ~HandlerInvoked(j))
      /\ HandlerInvoked(i)
           \/ resp[i].text \in {"Error occurred", "Event already processed (verified via thread history)"}

C1_Witness ==
  \E i \in Invs, j \in Invs :
    /\ SameEventPair(i, j) /\ ~ShortCircuited(i)
    /\ HandlerInvoked(i) /\ ShortCircuited(j)
    /\ RecordedBetween(i, j) = MAX_CACHE_SIZE - 1

\* C2 (as claimed): a call isEventProcessed(x) returns false when x was never
\* passed before and true on every later call with x.
C2_Original ==
  lastCall.n > 0 => (lastCall.ret <=> lastCall.known)

\* C2 (amended): a call isEventProcessed(x) returns true exactly when x is
\* among the MAX_CACHE_SIZE identifiers recorded most recently (so false on the
\* first call and again once MAX_CACHE_SIZE later identifiers have been
\* recorded), and x is held by the cache after the call.
C2_Amended ==
  lastCall.n > 0 =>
    /\ lastCall.ret <=> lastCall.recent
    /\ lastCall.id \in processedEvents
    /\ ~lastCall.ret => admitLog[Len(admitLog)] = lastCall.id

C2_Witness ==
  /\ lastCall.known /\ lastCall.ret
  /\ Len(admitLog) >= MAX_CACHE_SIZE

\* position of the latest recording of y and the held identifier recorded earliest
LastPos(log, y) == CHOOSE k \in 1..Len(log) :
                     log[k] = y /\ \A m \in 1..Len(log) : log[m] = y => m <= k
Oldest(set, log) == CHOOSE y \in set : \A z \in set : LastPos(log, y) <= LastPos(log, z)

\* one isEventProcessed call that recorded its identifier into a full cache
FullInsertion ==
  /\ lastCall'.n = lastCall.n + 1
  /\ ~lastCall'.ret
  /\ Cardinality(processedEvents) = MAX_CACHE_SIZE

\* C3: the cache never holds more than MAX_CACHE_SIZE identifiers, and an
\* insertion into a full cache evicts exactly one identifier, the one recorded
\* earliest among those held.
C3_Bounded ==
  /\ [](Cardinality(processedEvents) <= MAX_CACHE_SIZE
        /\ Len(processedEventsQueue) <= MAX_CACHE_SIZE)
  /\ [][FullInsertion =>
          processedEvents' = (processedEvents \cup {lastCall'.id})
                               \ {Oldest(processedEvents, admitLog)}]_vars

C3_Witness ==
  /\ Len(admitLog) > MAX_CACHE_SIZE
  /\ Cardinality(processedEvents) = MAX_CACHE_SIZE
  /\ ~lastCall.ret

Distinct(log) == Cardinality({ log[k] : k \in 1..Len(log) }) = Len(log)

\* what isEventProcessed(x) returns in the current state
Seen(x) == isEventProcessed(processedEvents, processedEventsQueue, x).ret

\* C4: after more than MAX_CACHE_SIZE distinct identifiers have been recorded,
\* a call on the earliest one returns false and a call on any of the
\* MAX_CACHE_SIZE most recent ones returns true.
C4_EvictedEarliest ==
  (Len(admitLog) > MAX_CACHE_SIZE /\ Distinct(admitLog)) =>
    /\ ~Seen(admitLog[1])
    /\ \A k \in 1..Len(admitLog) : k > Len(admitLog) - MAX_CACHE_SIZE => Seen(admitLog[k])

C4_Witness ==
  Len(admitLog) = MAX_CACHE_SIZE + 1 /\ Distinct(admitLog)

(* ------------------------- both deployments --------------------------- *)
InitAll == InitCommon /\ variant \in {"lambda", "vercel"}

NextAll == Next \/ NextVercel

SpecAll == InitAll /\ [][NextAll]_vars

(* ----------------------- thread history check ------------------------- *)
\* invocation i received a validly signed event_callback with an app_mention
MentionDelivery(i) ==
  /\ req[i].body = "object"
  /\ req[i].type = "event_callback"
  /\ req[i].hasEvent
  /\ req[i].ev.type = "app_mention"
  /\ SignedOK(i)

CheckedHistory(i) == "checkIfAlreadyResponded" \in calls[i]
HistoryFailedOpen(i) == "checkIfAlreadyResponded!" \in calls[i]
AnsweredByHistory(i) ==
  resp[i] = Resp(200, "Event already processed (verified via thread history)", NoChallenge)

\* C5 (as claimed): a mention whose thread held, when it arrived, a reply of the
\* bot later than the event never has its handler invoked, and the history
\* check, once it has run, answers it as already responded.
C5_Original ==
  \A i \in Invs :
    (MentionDelivery(i) /\ hadReply[i]) =>
      /\ ~HandlerInvoked(i)
      /\ CheckedHistory(i) => AnsweredByHistory(i)

\* C5 (amended): the same, provided neither conversations.replies nor auth.test
\* rejected inside the check; when one of them did, the check reports "not
\* answered" and the mention handler is invoked (fail-open).
C5_Amended ==
  \A i \in Invs :
    (MentionDelivery(i) /\ hadReply[i]) =>
      /\ ~HistoryFailedOpen(i) =>
           /\ ~HandlerInvoked(i)
           /\ CheckedHistory(i) => AnsweredByHistory(i)
      /\ HistoryFailedOpen(i) => HandlerInvoked(i)

\* a retry of a mention reaches a restarted process, whose cache is empty, after
\* the first delivery's handler replied in the thread, and is answered as
\* already responded
C5_Witness ==
  \E i \in Invs, j \in Invs :
    /\ MentionDelivery(i) /\ MentionDelivery(j)
    /\ req[i].event_id = req[j].event_id
    /\ epoch[i] < epoch[j]
    /\ HandlerInvoked(i)
    /\ hadReply[j] /\ seenAt[j] = 0
    /\ Returned(j) /\ AnsweredByHistory(j) /\ ~HandlerInvoked(j)

(* ------------------------ failed verification ------------------------- *)
\* C6: an event_callback request that failed verifyRequest causes no identity
\* lookup, no history check, no handler (hence no message post) and is
\* answered 200.
C6_RejectedIsInert ==
  \A i \in Invs :
    ( /\ req[i].body = "object" /\ req[i].type = "event_callback" /\ req[i].hasEvent
      /\ "verifyRequest" \in calls[i]
      /\ ~SignedOK(i) ) =>
      /\ calls[i] \cap ({"getBotId", "checkIfAlreadyResponded"} \cup HandlerNames) = {}
      /\ hpc[i] = NoHandler
      /\ Returned(i) => resp[i].status = 200

(* -------------------------- signature verifier ------------------------ *)
\* the conditions of the claim, read off the arguments of the call
SigPresent(x) == x.timestamp.kind # "absent" /\ x.slackSignature.kind # "absent"
SigWithinWindow(x) ==
  /\ x.timestamp.kind = "num"
  /\ Abs(x.nowMs - 1000 * x.timestamp.val) <= 300 * 1000
SigMatches(x) == x.slackSignature = Signature(signingSecret, x.timestamp, RawBody)

\* C7: isValidSlackRequest returns true exactly when both headers are present,
\* the timestamp is within 300 seconds of the clock and the signature is the
\* keyed hash of v0:{timestamp}:{body}.
C7_AcceptsExactly ==
  sigOut.returned =>
    (sigOut.value <=> (SigPresent(sigIn) /\ SigWithinWindow(sigIn) /\ SigMatches(sigIn)))

(* --------------------------- status codes ----------------------------- *)
\* C8 (as claimed): the Lambda handler answers 500 exactly when the body is not
\* JSON, and 200 otherwise.
C8_Original ==
  \A i \in Invs :
    Returned(i) =>
      /\ resp[i].status \in {200, 500}
      /\ resp[i].status = 500 <=> req[i].body = "unparseable"

\* C8 (amended): the Lambda handler answers 500 exactly when the body is not
\* JSON or is the JSON text null, and 200 otherwise.
C8_Amended ==
  \A i \in Invs :
    Returned(i) =>
      /\ resp[i].status \in {200, 500}
      /\ resp[i].status = 500 <=> req[i].body \in {"unparseable", "null"}

\* a body of null was answered 500 and a failed identity lookup 200
C8_Witness ==
  \E i \in Invs, j \in Invs :
    /\ Returned(i) /\ req[i].body = "null" /\ resp[i].status = 500
    /\ Returned(j) /\ resp[j] = Resp(200, "Error occurred", NoChallenge)

(* ------------------------- escaping exceptions ------------------------ *)
\* C9: no exception leaves the webhook handler.
C9_NoExceptionEscapes == \A i \in Invs : pc[i] # "threw"

(* --------------------------- url_verification ------------------------- *)
UrlVerification(r) == r.body = "object" /\ r.type = "url_verification"

\* the body of response r carries challenge ch: as the challenge member of a
\* JSON body (Lambda) or as the whole body (Vercel)
Carries(r, ch) == r.challenge = ch \/ (r.challenge = NoChallenge /\ r.text = ch)

UrlVerificationAnswered(i) ==
  /\ Returned(i)
  /\ resp[i].status = 200
  /\ Carries(resp[i], req[i].challenge)
  /\ calls[i] = {}
  /\ hpc[i] = NoHandler

UrlVerificationArrives(i) ==
  pc[i] = "idle" /\ pc'[i] # "idle" /\ UrlVerification(req'[i])

\* C10: a url_verification request is answered 200 with its challenge, without
\* verification, collaborator call or handler, and receiving it leaves the
\* cache and the conversation as they were.
C10_UrlVerification ==
  /\ [](\A i \in Invs : (pc[i] # "idle" /\ UrlVerification(req[i])) => UrlVerificationAnswered(i))
  /\ [][\A i \in Invs : UrlVerificationArrives(i) =>
           UNCHANGED << processedEvents, processedEventsQueue, thread, statusTs, hpc >>]_vars

\* a url_verification request was answered while the cache held an identifier
C10_Witness ==
  \E i \in Invs :
    /\ UrlVerification(req[i]) /\ req[i].challenge = "abc123"
    /\ UrlVerificationAnswered(i)
    /\ variant = "lambda"
    /\ processedEvents # {}

(* ------------------------------ the race ------------------------------ *)
RaceEnds(i) == pc[i] = "race" /\ pc'[i] # "race"
IsMention(i) == req[i].ev.type = "app_mention"

\* C11: the race ends with whichever of handler and timer completed first: with
\* the handler's own outcome when the handler had settled, the timer
\* notwithstanding, and otherwise as a failure at the moment the timer fires,
\* timeoutMs after the race began, the handler being left as it is.
C11_FirstToSettle ==
  [][\A i \in Invs : RaceEnds(i) =>
       /\ hpc'[i] = hpc[i]
       /\ Settled(hpc[i]) =>
            pc'[i] = IF IsMention(i) /\ hpc[i].at = "rejected" THEN "apology" ELSE "done"
       /\ ~Settled(hpc[i]) =>
            /\ now = raceAt[i] + timeoutMs(req[i])
            /\ pc'[i] = IF IsMention(i) THEN "apology" ELSE "done"]_vars

\* a mention lost its race to the timer and was answered with its handler still
\* pending; the handler of another request resolved first and the request was
\* answered without an apology
C11_Witness ==
  \E i \in Invs, j \in Invs :
    /\ IsMention(i) /\ Returned(i) /\ HandlerInvoked(i)
    /\ ~Settled(hpc[i]) /\ "postMessage" \in calls[i]
    /\ Returned(j) /\ HandlerInvoked(j)
    /\ hpc[j].at = "resolved" /\ "postMessage" \notin calls[j]

(* ------------------------ apology on failure -------------------------- *)
\* the race of invocation i ends in a failure: the timer fired first or the
\* handler rejected
RaceFails(i) == RaceEnds(i) /\ hpc[i].at # "resolved"

\* C12: for each handled shape, a race that ends in a timeout or a handler
\* error is followed by the apology posted to the thread, before the 200
\* response is returned.
C12_ApologyOnFailure ==
  [][\A i \in Invs : RaceFails(i) => pc'[i] = "apology"]_vars

(* ------------------------ the caller's ceiling ------------------------ *)
\* invocation i has arrived and has not returned its response yet
Running(i) == pc[i] \notin {"idle", "done"}

\* C13: measured from the arrival of its request, an invocation of the Lambda
\* handler is never still running when the caller's 180-second ceiling is
\* reached, whatever time the steps before and after the race take.
C13_ReturnsBeforeCeiling ==
  \A i \in Invs : Running(i) => now - startAt[i] < LambdaCeilingMs

(* ------------------------- order of the checks ------------------------ *)
NetworkCalls ==
  {"getBotId", "checkIfAlreadyResponded", "postMessage"} \cup HandlerNames

\* the step runs the cache check of invocation i / starts its handler
DedupRuns(i) == "isEventProcessed" \in calls'[i] /\ "isEventProcessed" \notin calls[i]
HandlerStarts(i) == HandlerInvoked(i)' /\ ~HandlerInvoked(i)

\* C14: the cache check of an invocation runs before any of its network calls
\* and ends the invocation when it returns true; its handler starts only in a
\* later step, with the cache check made and, for a mention or a message, the
\* thread-history check made and not answering "already responded"; once the
\* handler has started the invocation makes no cache check.
C14_ChecksBeforeHandler ==
  [][\A i \in Invs :
       /\ DedupRuns(i) =>
            /\ calls[i] \cap NetworkCalls = {}
            /\ calls'[i] \cap NetworkCalls = {}
            /\ lastCall'.ret => (Returned(i)' /\ ShortCircuited(i)')
       /\ HandlerStarts(i) =>
            /\ "isEventProcessed" \in calls[i]
            /\ ~ShortCircuited(i)
            /\ isMessageEvent(req[i].ev) => (CheckedHistory(i)' /\ ~AnsweredByHistory(i)')
       /\ AnsweredByHistory(i)' => ~HandlerInvoked(i)'
       /\ HandlerInvoked(i) => ~DedupRuns(i)]_vars

\* a mention went through the cache check, the thread-history check and the
\* start of its handler; a later delivery of the same event was ended by the
\* cache check with no network call made
C14_Witness ==
  \E i \in Invs, j \in Invs :
    /\ MentionDelivery(i) /\ HandlerInvoked(i) /\ CheckedHistory(i)
    /\ "isEventProcessed" \in calls[i]
    /\ order[i] < order[j]
    /\ ShortCircuited(j) /\ calls[j] = {"isEventProcessed"}

(* --------------------- verification and the cache --------------------- *)
\* invocation i is an event_callback delivery that fails the verification
Forged(i) ==
  /\ pc[i] # "idle"
  /\ req[i].body = "object" /\ req[i].type = "event_callback" /\ req[i].hasEvent
  /\ ~SignedOK(i)

\* C15: the verification precedes the cache check: a delivery that fails the
\* verification makes no cache check, and a validly signed delivery is ended
\* by the cache check only when a validly signed delivery of the same event_id
\* arrived before it.
C15_VerifiedBeforeDedup ==
  /\ \A i \in Invs : Forged(i) => "isEventProcessed" \notin calls[i]
  /\ \A j \in Invs :
       (Delivery(j) /\ ShortCircuited(j)) =>
          \E i \in Invs : /\ Delivery(i) /\ order[i] < order[j]
                          /\ req[i].event_id = req[j].event_id

(* ------------------- failures of the history check -------------------- *)
\* the step ends the thread-history check of invocation i
HistoryEnds(i) == pc[i] = "history" /\ pc'[i] # "history"

\* C16: when conversations.replies or auth.test fails inside
\* checkIfAlreadyResponded the check answers false, and an invocation whose
\* history check did not answer "already responded" goes on to its handler:
\* a failed check never ends the invocation without the handler.
C16_FailOpen ==
  [][\A i \in Invs :
       /\ pc[i] = "history" =>
            \A fetchOk \in BOOLEAN, authOk \in BOOLEAN :
               ~(fetchOk /\ authOk) =>
                  ~checkIfAlreadyResponded(req[i].ev, thread, fetchOk, authOk)
       /\ (HistoryEnds(i) /\ HistoryFailedOpen(i)') =>
            (HandlerInvoked(i)' /\ ~AnsweredByHistory(i)')
       /\ (HistoryEnds(i) /\ ~AnsweredByHistory(i)') => HandlerInvoked(i)']_vars

\* the thread held a later reply of the bot, the check failed and answered
\* false, and the handler was invoked
C16_Witness ==
  \E i \in Invs :
    /\ hadReply[i] /\ CheckedHistory(i) /\ HistoryFailedOpen(i)
    /\ HandlerInvoked(i) /\ ~AnsweredByHistory(i)

(* -------------------- the answer of the history check ----------------- *)
\* the list conversations.replies handed to the call, and the positions in it
\* of the messages the bot wrote in the thread of the event
FetchedList == Replies(fnIn.conv, ThreadTsOf(fnIn.ev), 10)
BotPositions ==
  { k \in 1..Len(FetchedList) :
      /\ FetchedList[k].bot_id = BotId
      /\ FetchedList[k].thread_ts = ThreadTsOf(fnIn.ev) }

HistAnswered ==
  /\ variant = "history" /\ fnOut # FnPending
  /\ fnIn.fetchOk /\ fnIn.authOk

\* C17: with the list fetched and the bot identified, checkIfAlreadyResponded
\* returns true when the list holds a message of the bot in the thread of the
\* event stamped strictly later than the event, and false when the bot's
\* messages in the list are all stamped like the event or earlier.
C17_LaterBotMessage ==
  HistAnswered =>
    /\ (\E k \in BotPositions : FetchedList[k].ts > fnIn.ev.ts) => fnOut.value
    /\ (BotPositions # {} /\ \A k \in BotPositions : FetchedList[k].ts <= fnIn.ev.ts)
          => ~fnOut.value

\* the call answered true for the message of thread 10, the list holding a
\* message of the bot stamped like the event and one stamped later
C17_Witness ==
  /\ HistAnswered /\ fnOut.value
  /\ fnIn.ev.thread_ts = 10
  /\ \E k \in BotPositions : FetchedList[k].ts = fnIn.ev.ts
  /\ \E k \in BotPositions : FetchedList[k].ts > fnIn.ev.ts

(* ------------------------------ routing ------------------------------- *)
\* invocation i is a validly signed event_callback that went through the cache
\* check, the identity lookup and the thread-history check and was dispatched
Dispatched(i) ==
  /\ req[i].body = "object" /\ req[i].type = "event_callback" /\ req[i].hasEvent
  /\ SignedOK(i)
  /\ \/ pc[i] \in {"race", "apology"}
     \/ Returned(i) /\ resp[i] = Resp(200, "Processing completed", NoChallenge)

\* the handler the claim assigns to an event
HandlerFor(ev) ==
  IF ev.type = "app_mention" THEN {"handleNewAppMention"}
  ELSE IF ev.type = "assistant_thread_started" THEN {"assistantThreadMessage"}
  ELSE IF /\ ev.type = "message" /\ ~ev.subtype /\ ev.channel_type = "im"
          /\ ev.bot_id = "" /\ ~ev.bot_profile
    THEN {"handleNewAssistantMessage"}
  ELSE {}

BotAuthored(ev) == ev.bot_id # "" \/ ev.bot_profile

\* the handler of invocation i is at a step that posts or has posted a reply
Replying(i) == hpc[i].at \notin {"none", "resolved"} \/ "postMessage" \in calls[i]

\* C18: an invocation invokes at most one handler, and only once dispatched;
\* a dispatched invocation has invoked exactly the handler its event calls for
\* (none for a message that misses a condition of the direct-message branch
\* or for another event type, which is answered 200); an event written by a
\* bot never gets a reply.
C18_Routing ==
  \A i \in Invs :
    /\ Cardinality(calls[i] \cap HandlerNames) <= 1
    /\ HandlerInvoked(i) => Dispatched(i)
    /\ Dispatched(i) => calls[i] \cap HandlerNames = HandlerFor(req[i].ev)
    /\ (Dispatched(i) /\ HandlerFor(req[i].ev) = {}) =>
          (Returned(i) /\ resp[i].status = 200 /\ hpc[i] = NoHandler)
    /\ (pc[i] # "idle" /\ BotAuthored(req[i].ev)) => ~Replying(i)

\* a message in a channel was answered 200 with no handler, a direct message
\* went to its handler, and a mention written by a bot went to the mention
\* handler, which returned without a reply
C18_Witness ==
  \E i \in Invs, j \in Invs :
    /\ Dispatched(i) /\ Returned(i) /\ ~HandlerInvoked(i)
    /\ req[i].ev.type = "message" /\ req[i].ev.channel_type = "channel"
    /\ Dispatched(j) /\ Returned(j)
    /\ req[j].ev.type = "app_mention" /\ BotAuthored(req[j].ev)
    /\ calls[j] \cap HandlerNames = {"handleNewAppMention"}
    /\ hpc[j].at = "resolved"

(* ----------------------------- the deadline --------------------------- *)
\* the spellings of the retry-count header among the header names of the model
RetryNumNames == {"x-slack-retry-num", "X-Slack-Retry-Num", "X-SLACK-RETRY-NUM"}

\* the headers carry a retry count: an entry named x-slack-retry-num in any
\* letter case, with a value
CarriesRetryNum(hs) ==
  \E k \in 1..Len(hs) : hs[k][1] \in RetryNumNames /\ hs[k][2] # ""

DeadlineChosen == variant = "deadline" /\ fnOut # FnPending

\* C19: the deadline is 120000 ms for a request that carries a retry count
\* under the header x-slack-retry-num spelled in any letter case, 160000 ms
\* for any other request, and below the 180000 ms ceiling either way.
C19_Deadline ==
  DeadlineChosen =>
    /\ fnOut.value = IF CarriesRetryNum(fnIn.headers) THEN 120000 ELSE 160000
    /\ fnOut.value < LambdaCeilingMs

\* 120000 ms was chosen for a request whose retry count came under a name
\* that is not in lower case, next to the retry reason
C19_Witness ==
  /\ DeadlineChosen /\ fnOut.value = 120000
  /\ Len(fnIn.headers) = 2
  /\ fnIn.headers[1] = <<"X-Slack-Retry-Num", "1">>
  /\ fnIn.headers[2][1] = "X-Slack-Retry-Reason"

(* --------------------------- the variants ----------------------------- *)
\* C20: for every request and the same behaviour of Slack, the Lambda handler,
\* the Vercel POST handler and the earlier Lambda handler return the same HTTP
\* status, invoke the same response handler or none, and make the same
\* duplicate checks.
C20_VariantsAgree ==
  (variant = "all" /\ fnOut # FnPending) =>
    /\ fnOut.lambda = fnOut.vercel
    /\ fnOut.lambda = fnOut.earlier

(* ------------------------ getThread fails open ------------------------ *)
ThreadAnswered == variant = "thread" /\ fnOut # FnPending
FetchFailed == fnIn.fetch.kind # "ok"

\* C21: getThread does not throw; when conversations.replies fails it returns
\* exactly one user turn (the explanatory text for missing_scope, the error
\* message otherwise), and a mention inside a thread then has generateResponse
\* called with that turn and, generateResponse resolving, its result written.
C21_GetThreadFailsOpen ==
  ThreadAnswered =>
    /\ ~fnOut.thread.threw
    /\ FetchFailed =>
         /\ Len(fnOut.thread.turns) = 1
         /\ fnOut.thread.turns[1].role = "user"
         /\ fnOut.thread.turns[1].content =
              IF fnIn.fetch.kind = "missing_scope" THEN MissingScopeText
              ELSE IF fnIn.fetch.kind = "undefined"
                THEN ErrorText("No messages found in thread")
              ELSE ErrorText(fnIn.fetch.message)
         /\ fnIn.inThread =>
              /\ fnOut.reply.threadRead /\ fnOut.reply.generated
              /\ fnOut.reply.turns = fnOut.thread.turns
              /\ fnIn.genOk => fnOut.reply.final = "result"

\* a mention inside a thread whose history could not be read for want of the
\* scope got the reply generated from the one explanatory turn
C21_Witness ==
  /\ ThreadAnswered /\ fnIn.inThread /\ fnIn.genOk
  /\ fnIn.fetch.kind = "missing_scope"
  /\ fnOut.reply.turns = << Turn("user", MissingScopeText) >>
  /\ fnOut.reply.final = "result"

(* ---------------------- failed identity lookup ------------------------ *)
GetBotIdFailed(i) == "getBotId!" \in calls[i]

\* C22: an invocation of the Lambda handler whose getBotId rejected has
\* returned HTTP 200 without running the thread-history check, without
\* invoking a handler and without posting a message.
C22_IdentityFailureIsFatal ==
  \A i \in Invs :
    GetBotIdFailed(i) =>
      /\ Returned(i) /\ resp[i].status = 200
      /\ ~CheckedHistory(i)
      /\ ~HandlerInvoked(i) /\ hpc[i] = NoHandler
      /\ "postMessage" \notin calls[i]

\* getBotId rejected for a validly signed mention, which was answered 200
C22_Witness ==
  \E i \in Invs :
    /\ MentionDelivery(i) /\ "verifyRequest" \in calls[i]
    /\ GetBotIdFailed(i) /\ Returned(i) /\ resp[i] = InnerCatch

(* ------------------------ the set and the queue ----------------------- *)
QueueIds == { processedEventsQueue[k] : k \in 1..Len(processedEventsQueue) }

\* C23: between the calls of isEventProcessed the set and the queue hold the
\* same identifiers, no identifier is in the queue twice, and the size of the
\* set is the length of the queue.
C23_SetMatchesQueue ==
  /\ processedEvents = QueueIds
  /\ Distinct(processedEventsQueue)
  /\ Cardinality(processedEvents) = Len(processedEventsQueue)

\* the cache is full, has evicted, and a delivery has been answered from it
C23_Witness ==
  /\ Len(processedEventsQueue) = MAX_CACHE_SIZE
  /\ Len(admitLog) > MAX_CACHE_SIZE
  /\ \E i \in Invs : ShortCircuited(i)

(* ------------------------------ a hit --------------------------------- *)
\* the step is one call of isEventProcessed that returned true
DedupHit == lastCall'.n = lastCall.n + 1 /\ lastCall'.ret

\* C24: a call of isEventProcessed that returns true changes neither the set
\* nor the queue: the identifier it hit keeps its place in the eviction order.
C24_HitLeavesCache ==
  [][DedupHit => /\ processedEvents' = processedEvents
                 /\ processedEventsQueue' = processedEventsQueue]_vars

\* a delivery hit the oldest identifier of a full cache, and the identifier
\* is still the next one to be evicted
C24_Witness ==
  \E i \in Invs :
    /\ ShortCircuited(i) /\ lastCall.ret /\ lastCall.id = req[i].event_id
    /\ Len(processedEventsQueue) = MAX_CACHE_SIZE
    /\ Head(processedEventsQueue) = req[i].event_id

(* ------------------------ the abandoned handler ----------------------- *)
\* the timer won the race of mention i and the apology has been posted
AbandonedAfterApology(i) ==
  /\ IsMention(i) /\ HandlerInvoked(i)
  /\ Returned(i) /\ "postMessage" \in calls[i]
  /\ ~Settled(hpc[i])

\* the step is a write of the handler of invocation i to the thread: the
\* status message posted, or the reply or the error text put in its place
HandlerWrites(i) ==
  \/ hpc[i].at = "post_status" /\ thread' # thread
  \/ hpc[i].at = "final" /\ hpc[i].target # 0 /\ hpc'[i].at = "resolved"

\* C25: once the timer has won the race of a mention and the apology has been
\* posted, the abandoned handler writes nothing more to the thread.
C25_AbandonedHandlerSilent ==
  [][\A i \in Invs : AbandonedAfterApology(i) => ~HandlerWrites(i)]_vars

(* ------------------- who gets the history check ----------------------- *)
\* the event is one whose classification calls for the history check: a
\* mention, or a message that meets the conditions of the direct-message branch
NeedsHistoryCheck(ev) ==
  \/ ev.type = "app_mention"
  \/ /\ ev.type = "message" /\ ~ev.subtype /\ ev.channel_type = "im"
     /\ ev.bot_id = "" /\ ~ev.bot_profile

\* C26: the thread-history check runs only for mentions and for messages that
\* meet the direct-message conditions, never for a message with a subtype or
\* outside a direct-message channel, nor for assistant_thread_started.
C26_HistoryOnlyWhenNeeded ==
  \A i \in Invs : CheckedHistory(i) => NeedsHistoryCheck(req[i].ev)

(* ------------------------ the status message -------------------------- *)
\* the step is updateStatusUtil of invocation i posting a new status message
PostsStatus(i) ==
  /\ hpc[i].at = "post_status" /\ hpc'[i].at # "post_status"
  /\ thread' # thread

\* C27: within one process the mention handler posts a status message for a
\* thread only when it has not posted one for that thread before; every other
\* status change is an update of the message already there.
C27_OneStatusMessage ==
  [][\A i \in Invs : PostsStatus(i) => statusTs[ThreadTsOf(req[i].ev)] = 0]_vars

(* ------------------- whose status message it is ----------------------- *)
\* the step is the handler of invocation j writing its reply or its error
\* text into a status message in which the handler of another event, i, has
\* already written its own
Overwrites(j, i) ==
  /\ i # j /\ req[i].event_id # req[j].event_id
  /\ IsMention(i) /\ IsMention(j)
  /\ hpc[i].at = "resolved" /\ hpc[i].target # 0
  /\ hpc[j].at = "final" /\ hpc[j].target = hpc[i].target
  /\ hpc'[j].at = "resolved"

\* C28: a handler that starts for a mention never takes over the status
\* message created for another event, and never writes its reply into a
\* message that holds the final reply of another event.
C28_HandleOwnedByEvent ==
  [][\A j \in Invs :
       /\ (HandlerStarts(j) /\ IsMention(j)) => hpc'[j].target = 0
       /\ \A i \in Invs : ~Overwrites(j, i)]_vars

(* ------------------- throttled progress callbacks --------------------- *)
ThrottledCall == variant = "throttle" /\ fnIn'.calls = fnIn.calls + 1
ComesTooSoon == Len(fnOut) > 0 /\ DateNow - fnOut[Len(fnOut)].at < UPDATE_INTERVAL

\* C29: any two calls forwarded to updateStatus one after the other are at
\* least UPDATE_INTERVAL (2000 ms) apart; a call made sooner after the last
\* forwarded one forwards nothing, and what is forwarded is the call being
\* made, at the time it is made: nothing is kept to be forwarded later, and
\* nothing is forwarded while time passes.
C29_ThrottleSpacing ==
  /\ [](\A k \in 1..(Len(fnOut) - 1) : fnOut[k + 1].at - fnOut[k].at >= UPDATE_INTERVAL)
  /\ [][/\ (ThrottledCall /\ ComesTooSoon) => fnOut' = fnOut
        /\ ThrottledCall =>
             \/ fnOut' = fnOut
             \/ /\ Len(fnOut') = Len(fnOut) + 1
                /\ SubSeq(fnOut', 1, Len(fnOut)) = fnOut
                /\ fnOut'[Len(fnOut')].at = DateNow
                /\ fnOut'[Len(fnOut')].call = fnIn'.calls
        /\ ~ThrottledCall => fnOut' = fnOut]_vars

\* two calls were forwarded exactly UPDATE_INTERVAL apart, and a call made
\* between them was dropped
C29_Witness ==
  /\ variant = "throttle"
  /\ Len(fnOut) >= 2
  /\ fnOut[2].at - fnOut[1].at = UPDATE_INTERVAL
  /\ fnOut[2].call > fnOut[1].call + 1

(* ------------------- a failed delivery stays recorded ----------------- *)
\* invocation i is an event_callback carrying an event and an event_id
EventDelivery(i) ==
  /\ req[i].body = "object"
  /\ req[i].type = "event_callback"
  /\ req[i].hasEvent
  /\ Truthy(req[i].event_id)

VerificationFailed(i) == resp[i] = Resp(200, "Verification failed", NoChallenge)

\* invocation i returned after its verification failed, its identity lookup
\* failed, or its handler lost the race or rejected
FailedDelivery(i) ==
  /\ EventDelivery(i) /\ Returned(i)
  /\ \/ VerificationFailed(i)
     \/ GetBotIdFailed(i)
     \/ "postMessage" \in calls[i]
     \/ HandlerInvoked(i) /\ hpc[i].at # "resolved"

\* j is a delivery of the event_id of i to the process that received i, after i
Redelivery(i, j) ==
  /\ i # j
  /\ EventDelivery(i) /\ EventDelivery(j)
  /\ req[i].event_id = req[j].event_id
  /\ epoch[i] = epoch[j]
  /\ order[i] < order[j]

\* the step is invocation i passing the cache check
Arrives(i) == pc[i] = "idle" /\ pc'[i] # "idle"

\* C30: the Lambda handler records an event_id at the cache check, before it
\* verifies the request; no step other than a later cache check or a restart
\* of the process changes the cache; and a redelivery of the event_id of a
\* delivery that failed (verification, identity lookup, handler error or
\* timeout), made to the same process while the id is still cached, is
\* answered 'Event already processed' and starts no handler.
C30_FailedDeliveryStaysRecorded ==
  /\ [](\A i \in Invs, j \in Invs :
          (/\ FailedDelivery(i) /\ Redelivery(i, j) /\ Returned(j)
           /\ RecordedBetween(i, j) < MAX_CACHE_SIZE)
            => (ShortCircuited(j) /\ ~HandlerInvoked(j)))
  /\ [][/\ \A i \in Invs :
             (Arrives(i) /\ EventDelivery(i)')
               => /\ req'[i].event_id \in processedEvents'
                  /\ "verifyRequest" \notin calls'[i]
        /\ (arrivals' = arrivals /\ coldStarts' = coldStarts)
             => UNCHANGED << processedEvents, processedEventsQueue >>]_vars

\* a forged delivery was turned away at the verification, and the genuine
\* delivery of the same event_id that followed was short-circuited
C30_Witness ==
  \E i \in Invs, j \in Invs :
    /\ FailedDelivery(i) /\ VerificationFailed(i)
    /\ Redelivery(i, j) /\ Returned(j) /\ SignedOK(j)
    /\ order[j] = order[i] + 1
    /\ ShortCircuited(j) /\ ~HandlerInvoked(j)

(* ------------- a status message or an apology as an answer ------------ *)
\* timestamps of the messages of the bot in the thread of ev later than ev
LaterBotMessages(ev, conv) ==
  { conv[k].ts : k \in { n \in 1..Len(conv) :
      /\ conv[n].bot_id = BotId
      /\ conv[n].thread_ts = ThreadTsOf(ev)
      /\ conv[n].ts > ev.ts } }

\* the handler of invocation i posted a status message and never wrote its
\* reply into it: it was abandoned at the timeout, or killed with the process
StatusLeftBehind(i) ==
  /\ hpc[i].target # 0
  /\ hpc[i].at \in {"generate", "final", "killed"}

\* j is a later delivery of the mention of i, and all the bot has written in
\* the thread since the mention is the status message of i, or that and the
\* apology of i
RedeliveredAfterStatus(i, j) ==
  /\ i # j
  /\ MentionDelivery(i) /\ MentionDelivery(j)
  /\ Truthy(req[i].event_id)
  /\ req[i].event_id = req[j].event_id
  /\ order[i] < order[j]
  /\ Returned(i) /\ StatusLeftBehind(i)
  /\ hpc[i].target \in LaterBotMessages(req[j].ev, thread)
  /\ Cardinality(LaterBotMessages(req[j].ev, thread)) <= 2

SharedCall == variant = "shared throttle" /\ fnIn'.calls = fnIn.calls + 1
SharedFinal == variant = "shared throttle" /\ fnIn'.finished # fnIn.finished
LastForwarded == fnOut.forwarded[Len(fnOut.forwarded)]

\* a wrapper is called less than UPDATE_INTERVAL after a call of the wrapper
\* of another generateResponse call was forwarded
AfterAnotherEvent ==
  /\ SharedCall
  /\ Len(fnOut.forwarded) > 0
  /\ LastForwarded.wrapper # fnIn'.caller
  /\ DateNow - LastForwarded.at < UPDATE_INTERVAL

\* C32: every generateResponse call of the process keeps the time of its last
\* forwarded progress update under the one key 'default'; a progress update of
\* one event, its first included, is dropped when an update of another event
\* was forwarded less than UPDATE_INTERVAL (2000 ms) earlier; the final text
\* handleNewAppMention writes is written whenever it comes, and the throttle
\* neither sees it nor is changed by it.
C32_SharedThrottle ==
  /\ [](/\ \A w \in Wrappers : w.id \in fnIn.started => w.operationId = "default"
        /\ \A id \in fnIn.finished :
             \E k \in 1..Len(fnOut.finals) : fnOut.finals[k].wrapper = id)
  /\ [][/\ AfterAnotherEvent => fnOut'.forwarded = fnOut.forwarded
        /\ SharedFinal =>
             /\ Len(fnOut'.finals) = Len(fnOut.finals) + 1
             /\ fnOut'.finals[Len(fnOut'.finals)].at = DateNow
             /\ fnIn'.lastUpdateTime = fnIn.lastUpdateTime
             /\ fnOut'.forwarded = fnOut.forwarded]_vars

\* the first progress update of a second event was dropped because an update
\* of the first event had been forwarded just before, and the second event's
\* final text was written all the same, inside the same interval
C32_Witness ==
  /\ variant = "shared throttle"
  /\ Len(fnOut.forwarded) = 1
  /\ fnOut.forwarded[1].wrapper = 1
  /\ fnIn.started = {1, 2}
  /\ \E k \in 1..Len(fnOut.finals) :
       /\ fnOut.finals[k].wrapper = 2
       /\ fnOut.finals[k].at - fnOut.forwarded[1].at < UPDATE_INTERVAL
       /\ fnOut.finals[k].at >= fnOut.forwarded[1].at

====
